---------------------------- MODULE Spec2Model ----------------------------
(***************************************************************************)
(* A model of vue-why-did-you-render's RenderRegistry                      *)
(* (src/src/core/registry.ts): the per-component render aggregator, the    *)
(* trigger classifier it runs in recordRenderTrigger, and the no-op        *)
(* detector.                                                               *)
(*                                                                         *)
(* JavaScript values are records [ty, v]: ty is the value's runtime kind   *)
(* and v a string (the printed number, the string itself, or the identity  *)
(* of a heap object), so that === is record equality.                      *)
(***************************************************************************)
EXTENDS Integers, Sequences, FiniteSets, TLC

\* ------------------------------------------------------------------ values

Undef == [ty |-> "undefined", v |-> ""]
Null == [ty |-> "null", v |-> ""]
Num(s) == [ty |-> "number", v |-> s]
Str(s) == [ty |-> "string", v |-> s]
Obj(id) == [ty |-> "object", v |-> id]

\* typeof x
TypeOf(x) == IF x.ty = "null" THEN "object" ELSE x.ty

\* The objects values may refer to.  raw is what toRaw() returns for the
\* object (itself unless it is a reactive proxy); keys is Object.keys() and
\* vals the value under each key (an array's keys are its indices, all of
\* them present).
Heap ==
  [ arrA  |-> [isArray |-> TRUE,  raw |-> "arrA", keys |-> <<"0", "1">>,
               vals |-> [k \in {"0", "1"} |-> Num("1")]],
    arrB  |-> [isArray |-> TRUE,  raw |-> "arrB", keys |-> <<"0", "1">>,
               vals |-> [k \in {"0", "1"} |-> Num("1")]],
    arrAp |-> [isArray |-> TRUE,  raw |-> "arrA", keys |-> <<"0", "1">>,
               vals |-> [k \in {"0", "1"} |-> Num("1")]],
    arrC  |-> [isArray |-> TRUE,  raw |-> "arrC", keys |-> <<"0">>,
               vals |-> [k \in {"0"} |-> Num("1")]],
    arrD  |-> [isArray |-> TRUE,  raw |-> "arrD", keys |-> <<"0", "1">>,
               vals |-> [k \in {"0", "1"} |-> IF k = "0" THEN Num("1") ELSE Num("2")]],
    arrO1 |-> [isArray |-> TRUE,  raw |-> "arrO1", keys |-> <<"0">>,
               vals |-> [k \in {"0"} |-> Obj("objA")]],
    arrO2 |-> [isArray |-> TRUE,  raw |-> "arrO2", keys |-> <<"0">>,
               vals |-> [k \in {"0"} |-> Obj("objAp")]],
    arrO3 |-> [isArray |-> TRUE,  raw |-> "arrO3", keys |-> <<"0">>,
               vals |-> [k \in {"0"} |-> Obj("objC")]],
    objA  |-> [isArray |-> FALSE, raw |-> "objA", keys |-> <<"a">>,
               vals |-> [k \in {"a"} |-> Num("1")]],
    objAp |-> [isArray |-> FALSE, raw |-> "objA", keys |-> <<"a">>,
               vals |-> [k \in {"a"} |-> Num("1")]],
    objB  |-> [isArray |-> FALSE, raw |-> "objB", keys |-> <<"a">>,
               vals |-> [k \in {"a"} |-> Num("2")]],
    objC  |-> [isArray |-> FALSE, raw |-> "objC", keys |-> <<"a">>,
               vals |-> [k \in {"a"} |-> Num("1")]],
    objU1 |-> [isArray |-> FALSE, raw |-> "objU1", keys |-> <<"a">>,
               vals |-> [k \in {"a"} |-> Undef]],
    objU2 |-> [isArray |-> FALSE, raw |-> "objU2", keys |-> <<"b">>,
               vals |-> [k \in {"b"} |-> Num("1")]],
    objAB |-> [isArray |-> FALSE, raw |-> "objAB", keys |-> <<"a", "b">>,
               vals |-> [k \in {"a", "b"} |-> IF k = "a" THEN Num("1") ELSE Num("2")]],
    arrE  |-> [isArray |-> TRUE,  raw |-> "arrE", keys |-> <<>>,
               vals |-> [k \in {} |-> Undef]],
    objE  |-> [isArray |-> FALSE, raw |-> "objE", keys |-> <<>>,
               vals |-> [k \in {} |-> Undef]] ]

ObjIds == DOMAIN Heap

\* toRaw(x): a proxy's target, anything else unchanged
ToRaw(x) == IF x.ty = "object" THEN Obj(Heap[x.v].raw) ELSE x

Range(s) == {s[i] : i \in DOMAIN s}

\* obj[key]: undefined when the object has no such key
Prop(id, k) == IF k \in Range(Heap[id].keys) THEN Heap[id].vals[k] ELSE Undef

\* a variant of SameElements that looks at the lengths only
SameLength(idOld, idNew) == Len(Heap[idOld].keys) = Len(Heap[idNew].keys)

\* detectNoOp, lines 497-505: the array branch, on the raw arrays
SameElements(idOld, idNew) ==
  IF Len(Heap[idOld].keys) # Len(Heap[idNew].keys) THEN FALSE
  ELSE \A i \in DOMAIN Heap[idOld].keys :
          ToRaw(Prop(idOld, Heap[idOld].keys[i]))
            = ToRaw(Prop(idNew, Heap[idOld].keys[i]))

\* detectNoOp, lines 509-513: the branch of all other objects, on the raw objects
SameValues(idOld, idNew) ==
  IF Len(Heap[idOld].keys) # Len(Heap[idNew].keys) THEN FALSE
  ELSE \A i \in DOMAIN Heap[idOld].keys :
          ToRaw(Prop(idOld, Heap[idOld].keys[i]))
            = ToRaw(Prop(idNew, Heap[idOld].keys[i]))

\* a variant of detectNoOp that is === alone
detectNoOpIdentical(oldValue, newValue) == oldValue = newValue

\* RenderRegistry.detectNoOp
detectNoOp(oldValue, newValue) ==
  IF oldValue = Undef /\ newValue = Undef THEN FALSE
  ELSE IF oldValue = Null /\ newValue = Null THEN TRUE
  ELSE IF oldValue = newValue THEN TRUE
  ELSE IF oldValue = Undef \/ newValue = Undef THEN FALSE
  ELSE IF TypeOf(oldValue) # TypeOf(newValue) THEN FALSE
  ELSE IF TypeOf(oldValue) = "object" /\ oldValue # Null /\ newValue # Null
  THEN LET idOld == ToRaw(oldValue).v
           idNew == ToRaw(newValue).v
       IN  IF Heap[idOld].isArray /\ Heap[idNew].isArray
           THEN SameElements(idOld, idNew)
           ELSE SameValues(idOld, idNew)
  ELSE FALSE


\* ------------------------------------------------- reactive handles, events

NoKey == "<undefined>"
NoType == "<undefined>"
NoHandle == "none"

\* The reactive objects an event may name, with the fields the registry reads:
\* __v_isComputed, effect, __v_isRef, '_value' in target, _value (and whether
\* reading it throws), .value (and whether reading it throws),
\* __v_isReactive, $id ("" when absent), _p.
Handles ==
  [ plain  |-> [isComputed |-> FALSE, hasEffect |-> FALSE, isRef |-> FALSE,
                hasValueField |-> FALSE, _value |-> Undef, _valueThrows |-> FALSE,
                value |-> Undef, valueThrows |-> FALSE, isReactive |-> FALSE,
                id |-> "", hasP |-> FALSE],
    refH   |-> [isComputed |-> FALSE, hasEffect |-> FALSE, isRef |-> TRUE,
                hasValueField |-> TRUE, _value |-> Num("1"), _valueThrows |-> FALSE,
                value |-> Num("1"), valueThrows |-> FALSE, isReactive |-> FALSE,
                id |-> "", hasP |-> FALSE],
    refU   |-> [isComputed |-> FALSE, hasEffect |-> FALSE, isRef |-> TRUE,
                hasValueField |-> TRUE, _value |-> Undef, _valueThrows |-> FALSE,
                value |-> Undef, valueThrows |-> FALSE, isReactive |-> FALSE,
                id |-> "", hasP |-> FALSE],
    refBad |-> [isComputed |-> FALSE, hasEffect |-> FALSE, isRef |-> TRUE,
                hasValueField |-> TRUE, _value |-> Undef, _valueThrows |-> TRUE,
                value |-> Undef, valueThrows |-> TRUE, isReactive |-> FALSE,
                id |-> "", hasP |-> FALSE],
    compH  |-> [isComputed |-> TRUE, hasEffect |-> TRUE, isRef |-> TRUE,
                hasValueField |-> TRUE, _value |-> Num("1"), _valueThrows |-> FALSE,
                value |-> Num("1"), valueThrows |-> FALSE, isReactive |-> FALSE,
                id |-> "", hasP |-> FALSE],
    compBad |-> [isComputed |-> TRUE, hasEffect |-> TRUE, isRef |-> TRUE,
                hasValueField |-> TRUE, _value |-> Undef, _valueThrows |-> TRUE,
                value |-> Undef, valueThrows |-> TRUE, isReactive |-> FALSE,
                id |-> "", hasP |-> FALSE],
    react  |-> [isComputed |-> FALSE, hasEffect |-> FALSE, isRef |-> FALSE,
                hasValueField |-> FALSE, _value |-> Undef, _valueThrows |-> FALSE,
                value |-> Undef, valueThrows |-> FALSE, isReactive |-> TRUE,
                id |-> "", hasP |-> FALSE],
    storeO |-> [isComputed |-> FALSE, hasEffect |-> FALSE, isRef |-> FALSE,
                hasValueField |-> FALSE, _value |-> Undef, _valueThrows |-> FALSE,
                value |-> Undef, valueThrows |-> FALSE, isReactive |-> FALSE,
                id |-> "cart", hasP |-> TRUE],
    \* the members of the store 'cart': the computed behind its getter
    \* 'total' and the ref behind its state 'items'
    totalC |-> [isComputed |-> FALSE, hasEffect |-> TRUE, isRef |-> TRUE,
                hasValueField |-> TRUE, _value |-> Num("3"), _valueThrows |-> FALSE,
                value |-> Num("3"), valueThrows |-> FALSE, isReactive |-> FALSE,
                id |-> "", hasP |-> FALSE],
    itemsRef |-> [isComputed |-> FALSE, hasEffect |-> FALSE, isRef |-> TRUE,
                hasValueField |-> TRUE, _value |-> Num("1"), _valueThrows |-> FALSE,
                value |-> Num("1"), valueThrows |-> FALSE, isReactive |-> FALSE,
                id |-> "", hasP |-> FALSE] ]

\* the handles that are members of a store
StoreHandleIds == {"totalC", "itemsRef"}
\* the handles of no store
HandleIds == DOMAIN Handles \ StoreHandleIds

\* event.effect: absent, or an object with a dependency chain (each link's
\* dep.computed and dep.target), and its own computed and fn
NoEffect == [present |-> FALSE, deps |-> <<>>, computed |-> NoHandle, fn |-> NoHandle]
Effect(deps) == [present |-> TRUE, deps |-> deps, computed |-> NoHandle, fn |-> NoHandle]
Dep(c, t) == [computed |-> c, target |-> t]

\* DebuggerEvent (src/src/core/types.ts)
Event(target, effect, type, key, oldValue, newValue) ==
  [target |-> target, effect |-> effect, type |-> type, key |-> key,
   oldValue |-> oldValue, newValue |-> newValue]

\* keys that are symbols, and the keys matching /^\d+$/
SymbolKeys == {"Symbol(iterate)"}
DigitKeys == {"0", "1", "2"}

\* target.__v_isComputed || target.effect
IsComputedH(h) == Handles[h].isComputed \/ Handles[h].hasEffect

\* try { x = target._value } catch { x = undefined }
ReadBacking(h) == IF Handles[h]._valueThrows THEN Undef ELSE Handles[h]._value

\* dep.dep?.computed || dep.dep?.target
DepTarget(d) == IF d.computed # NoHandle THEN d.computed ELSE d.target

Min(S) == CHOOSE x \in S : \A y \in S : x <= y

\* a variant of FirstUsable that stops at the last usable link
LastUsable(deps) ==
  LET S == {i \in DOMAIN deps :
              /\ DepTarget(deps[i]) # NoHandle
              /\ (IsComputedH(DepTarget(deps[i])) \/ Handles[DepTarget(deps[i])].isRef)}
  IN  IF S = {} THEN 0 ELSE CHOOSE x \in S : \A y \in S : x >= y

\* the first link of the chain the walk stops at, 0 when it runs off the end
FirstUsable(deps) ==
  LET S == {i \in DOMAIN deps :
              /\ DepTarget(deps[i]) # NoHandle
              /\ (IsComputedH(DepTarget(deps[i])) \/ Handles[DepTarget(deps[i])].isRef)}
  IN  IF S = {} THEN 0 ELSE Min(S)

\* a variant of inferSource that takes an object without markers for props
inferSourceWithProps(h) ==
  IF h = NoHandle THEN "unknown"
  ELSE IF Handles[h].hasValueField \/ Handles[h].isRef THEN "ref"
  ELSE IF Handles[h].hasEffect \/ Handles[h].isComputed THEN "computed"
  ELSE IF Handles[h].isReactive THEN "reactive"
  ELSE IF Handles[h].id # "" \/ Handles[h].hasP THEN "store"
  ELSE "prop"

\* RenderRegistry.inferSource
inferSource(h) ==
  IF h = NoHandle THEN "unknown"
  ELSE IF Handles[h].hasValueField \/ Handles[h].isRef THEN "ref"
  ELSE IF Handles[h].hasEffect \/ Handles[h].isComputed THEN "computed"
  ELSE IF Handles[h].isReactive THEN "reactive"
  ELSE IF Handles[h].id # "" \/ Handles[h].hasP THEN "store"
  ELSE "reactive"

\* recordRenderTrigger, the value extraction: the key, type, values, source
\* and deferred computed reference of the trigger, before store attribution
Extract(event) ==
  LET target == event.target
      effect == event.effect
      base == [key |-> event.key, type |-> event.type, oldValue |-> event.oldValue,
               newValue |-> event.newValue, source |-> "unknown",
               computedRef |-> NoHandle]
  IN  IF target = NoHandle /\ effect.present
      THEN LET i == FirstUsable(effect.deps)
           IN  IF i = 0
               THEN [base EXCEPT !.source = "computed", !.key = "dependency",
                                 !.type = "change",
                                 !.newValue = Str("[dependency changed]")]
               ELSE LET dt == DepTarget(effect.deps[i])
                    IN  IF IsComputedH(dt)
                        THEN [base EXCEPT !.source = "computed", !.key = "value",
                                          !.type = "get",
                                          !.oldValue = ReadBacking(dt),
                                          !.newValue = ReadBacking(dt),
                                          !.computedRef = dt]
                        ELSE [base EXCEPT !.source = "ref", !.key = "value",
                                          !.type = "set",
                                          !.oldValue = ReadBacking(dt),
                                          !.newValue = ReadBacking(dt)]
      ELSE IF target # NoHandle
      THEN IF IsComputedH(target)
           THEN LET b2 == [base EXCEPT
                             !.source = "computed",
                             !.key = IF event.key = NoKey THEN "value" ELSE event.key,
                             !.type = IF event.type = NoType THEN "get" ELSE event.type]
                IN  IF event.oldValue = Undef /\ event.newValue = Undef
                    THEN [b2 EXCEPT !.oldValue = ReadBacking(target),
                                    !.newValue = ReadBacking(target),
                                    !.computedRef = target]
                    ELSE b2
           ELSE IF Handles[target].isRef
           THEN LET b2 == [base EXCEPT
                             !.source = "ref",
                             !.key = IF event.key = NoKey THEN "value" ELSE event.key,
                             !.type = IF event.type = NoType THEN "set" ELSE event.type]
                    H == Handles[target]
                    \* target._value ?? target.value
                    threw == H._valueThrows
                               \/ (H._value \in {Undef, Null} /\ H.valueThrows)
                    currentVal == IF H._value \in {Undef, Null} THEN H.value ELSE H._value
                IN  IF (event.oldValue = Undef \/ event.newValue = Undef) /\ ~threw
                    THEN [b2 EXCEPT
                            !.newValue = IF event.newValue = Undef THEN currentVal
                                         ELSE event.newValue,
                            !.oldValue = IF event.oldValue = Undef THEN currentVal
                                         ELSE event.oldValue]
                    ELSE b2
           ELSE [base EXCEPT !.source = inferSource(target)]
      ELSE base

\* type === 'add' || type === 'delete' || (type === 'set' && /^\d+$/.test(key))
IsArrayMutation(type, key) ==
  type = "add" \/ type = "delete" \/ (type = "set" /\ key \in DigitKeys)

\* RenderRegistry.buildPath; the path "a.b" is the sequence <<"a", "b">>
buildPath(target, key, storeId) ==
  IF key = NoKey \/ key = "" THEN <<"unknown">>
  ELSE LET keyStr == IF key \in SymbolKeys THEN "iterate" ELSE key
       IN  IF storeId # "" THEN <<storeId, keyStr>>
           ELSE IF target = NoHandle THEN <<keyStr>>
           ELSE IF Handles[target].isRef THEN <<"ref", keyStr>>
           ELSE IF Handles[target].id # "" THEN <<Handles[target].id, keyStr>>
           ELSE <<keyStr>>

\* RenderRegistry.inferReason
inferReason(triggers) ==
  IF Len(triggers) = 0 THEN "initial"
  ELSE LET sources == {triggers[i].source : i \in DOMAIN triggers}
       IN  IF "store" \in sources THEN "store-change"
           ELSE IF "prop" \in sources THEN "prop-change"
           ELSE "state-change"


\* --------------------------------------------------------------- bounds

\* recordTrackedDependency and recordRenderTrigger calls in one run (each has
\* a serial number)
MaxCalls == 2
\* finalizeRender calls in one run that find the registry not paused
MaxRenders == 2
\* finalizeRender calls in one run of the throttling specification
MaxCycles == 3
MaxProbes == 1
\* mutations of the stores' state in one run
MaxMutations == 2

\* ---------------------------------------------------------------- state

Ids == {"c1", "c2"}
Names == {"A", "B"}
\* the component names an instance is finalized under: c1 is an instance of A,
\* c2 another instance of A or an instance of B
NamesOf(id) == IF id = "c1" THEN {"A"} ELSE Names
\* options.throttleMs: absent (0) or an interval; options.pauseOnInit only
\* sets isPaused in the constructor and is not kept
ThrottleChoices == {0, 1}
\* the milliseconds that pass between two readings of Date.now(): the time
\* that passes between two calls shows at the next finalizeRender, the only
\* reader
Elapse == {0, 1}
\* Date.now() at construction: far past any throttle interval
StartTime == 10

VARIABLES
  options,                \* WhyDidYouRenderOptions given to the constructor
  isPaused,
  trackedDeps,            \* Map<componentId, Set<key>>
  pendingTriggers,        \* Map<componentId, RenderTrigger[]>
  totalRenders,
  rendersByComponent,     \* Map<componentName, number>
  noOpRenderCount,
  lastRenderTime,         \* Map<componentId, number>
  throttledEvents,        \* Map<componentId, ComponentRenderEvent>
  initialRenderComplete,  \* Set<componentId>
  registry,               \* Map<"<id>-<timestamp>", ComponentRenderEvent>
  shared,                 \* which history event holds the very array or Set object
                          \* that is id's pending trigger buffer ("triggers"), id's
                          \* tracked-key buffer ("tracked") or the trigger array of
                          \* id's held event ("held"): <<buffer, id>> -> history key
  clock,                  \* what Date.now() returned last (StartTime before any call)
  ret,                    \* what the latest call returned
  cbCalls,                \* the events options.onRender was invoked with by the latest call
  nCalls,                 \* record calls so far
  nFinal,                 \* finalizeRender calls so far that were not paused
  lastDropped,            \* serial of the latest record call made while paused (0: none)
  sinceTriggers,          \* per id: serials recorded (not paused) since id's last
                          \* non-paused finalizeRender, cleanupComponent or reset
  sinceKeys,              \* per id: keys recorded (not paused) in the same interval
  emitted,                \* per name: events returned since the last reset
  seen,                   \* per id: "never" finalized (not paused) since construction,
                          \* "finalized", "cleaned" (cleanupComponent after the latest
                          \* finalize) or "forgotten" (reset after the latest finalize)
  seenBefore,             \* seen[id] as the latest call found it, when that call was a
                          \* finalizeRender(id) that was not paused ("" otherwise)
  sinceEmit,              \* per id: serials recorded (not paused) since the latest event
                          \* returned for id, cleanupComponent(id) or reset
  lastEmitAt,             \* per id: Date.now() of the latest event returned for id
                          \* since the latest cleanupComponent(id) or reset (0: none)
  heldBefore,             \* serials held for the id when the latest finalizeRender began
  piniaTracker,           \* a PiniaTracker: refToStoreMap, registeredStores,
                          \* getterValueCache, propToRefMap
  storeNow,               \* how many times the stores' state was mutated: what the
                          \* stores' computed members yield now depends on it
  oldSeen,                \* per cache key: the oldValue getGetterValueWithOld
                          \* returned last since the latest snapshot, whether
                          \* PiniaTracker.reset ran since, and whether that call
                          \* was not the first one since the latest snapshot
  mounted,                \* the component instances whose mounted hook has run
  logged,                 \* what the console logger wrote: the header of each event
  hookCalls               \* the events the latest updated hook passed to
                          \* options.onRender itself

progVars == <<options, isPaused, trackedDeps, pendingTriggers, totalRenders,
              rendersByComponent, noOpRenderCount, lastRenderTime, throttledEvents,
              initialRenderComplete, registry, shared>>
ghostVars == <<ret, cbCalls, nCalls, nFinal, lastDropped, sinceTriggers,
               sinceKeys, emitted, seen, seenBefore, sinceEmit, lastEmitAt,
               heldBefore>>
storeVars == <<piniaTracker, storeNow, oldSeen>>
pluginVars == <<mounted, logged, hookCalls>>
vars == <<progVars, clock, ghostVars, storeVars, pluginVars>>

\* Map helpers: a Map is a function whose domain is the keys present
EmptyMap == [x \in {} |-> 0]
Has(m, k) == k \in DOMAIN m
MapSet(m, k, val) == [x \in DOMAIN m \cup {k} |-> IF x = k THEN val ELSE m[x]]
MapDelete(m, k) == [x \in DOMAIN m \ {k} |-> m[x]]
\* m.get(k) || dflt
GetOr(m, k, dflt) == IF Has(m, k) THEN m[k] ELSE dflt

\* what a call returned: nothing (void), null, or an event
Void == [kind |-> "void"]
RetNull(id) == [kind |-> "null", id |-> id]
RetEvent(id, name, e) == [kind |-> "event", id |-> id, name |-> name, event |-> e]
\* the call ended with what options.onRender raised, after passing it e
RetRaised(id, name, e) == [kind |-> "raised", id |-> id, name |-> name, event |-> e]

\* the buffers of componentId are dropped: no history event shares them
DropShared(componentId) ==
  [x \in {y \in DOMAIN shared : y[2] # componentId} |-> shared[x]]

\* trackedDeps.get(componentId).add(key), seen through the history event that
\* holds the same Set
TrackInHistory(componentId, key) ==
  IF Has(shared, <<"tracked", componentId>>)
  THEN [registry EXCEPT ![shared[<<"tracked", componentId>>]].tracked = @ \cup {key}]
  ELSE registry

\* pendingTriggers.get(componentId).push(trigger), seen through the history
\* event that holds the same array
PushInHistory(componentId, trigger) ==
  IF Has(shared, <<"triggers", componentId>>)
  THEN [registry EXCEPT ![shared[<<"triggers", componentId>>]].triggers =
          Append(@, trigger)]
  ELSE registry

\* -------------------------------------------------------- the store tracker
\* PiniaTracker (src/unnamed/part_002), on its own as the tests build it.

\* what reading a computed member through the store's reactive proxy yields:
\* the current value of computed c
Unwrapped(c) == [ty |-> "unwrapped", v |-> c]

\* the values a computed member takes as the store's state is mutated
Numeral == <<"3", "4", "5", "6", "7">>
\* computedRef.value, computedRef.effect.fn(): the current value of a computed
ValueNow(c) == Num(Numeral[storeNow + 1])
\* store[propName] as read now
Now(x) == IF x.ty = "unwrapped" THEN ValueNow(x.v) ELSE x

\* a function value
Fn == [ty |-> "function", v |-> ""]

\* !x, for the values used here
Falsy(x) == x \in {Undef, Null, Num("0"), Str("")}

\* The objects a store is made of, with what the tracker reads of each:
\* __v_raw, Array.isArray, __v_isRef, __v_isComputed, effect, dep, computed
\* (of a dep or an effect), _object and _key (of a toRef), Object.keys and the
\* value under each key ("" is an absent object).  A reactive proxy has its
\* own entry: its props are the values read through it (refs unwrapped).
Thing == [vraw |-> "", isArray |-> FALSE, isRef |-> FALSE, isComputed |-> FALSE,
          effect |-> "", dep |-> "", computed |-> "", object |-> "", key |-> "",
          keys |-> <<>>, props |-> EmptyMap]

\* an object with the given <<key, value>> pairs as its own enumerable members
Keyed(pairs) ==
  [Thing EXCEPT
     !.keys = [i \in DOMAIN pairs |-> pairs[i][1]],
     !.props = [k \in {pairs[i][1] : i \in DOMAIN pairs} |->
                  pairs[CHOOSE i \in DOMAIN pairs : pairs[i][1] = k][2]]]

World ==
  [ \* the store of the tests: a plain object holding a ref and a computed
    countRef  |-> [Thing EXCEPT !.isRef = TRUE],
    doubleC   |-> [Thing EXCEPT !.isRef = TRUE, !.isComputed = TRUE, !.dep = "doubleDep"],
    doubleDep |-> [Thing EXCEPT !.computed = "doubleC"],
    stateA    |-> Keyed(<< <<"count", Num("0")>> >>),
    counter   |-> Keyed(<< <<"$id", Str("counter")>>, <<"$state", Obj("stateA")>>,
                          <<"count", Obj("countRef")>>, <<"double", Obj("doubleC")>>,
                          <<"increment", Fn>>, <<"staticValue", Num("42")>> >>),
    \* another store object with the same $id
    nRef      |-> [Thing EXCEPT !.isRef = TRUE],
    stateB    |-> Keyed(<< <<"n", Num("1")>> >>),
    counter2  |-> Keyed(<< <<"$id", Str("counter")>>, <<"$state", Obj("stateB")>>,
                          <<"n", Obj("nRef")>> >>),
    \* a store without $id
    noId      |-> Keyed(<< <<"$state", Obj("stateA")>> >>),
    \* a store behind reactive proxies, its state an array
    itemsRaw  |-> [Thing EXCEPT !.isArray = TRUE],
    itemsP    |-> [Thing EXCEPT !.isArray = TRUE, !.vraw = "itemsRaw"],
    itemsRef  |-> [Thing EXCEPT !.isRef = TRUE],
    totalC    |-> [Thing EXCEPT !.isRef = TRUE, !.effect = "totalEff"],
    totalEff  |-> [Thing EXCEPT !.computed = "totalC"],
    cartStateRaw |-> Keyed(<< <<"items", Obj("itemsRef")>> >>),
    cartState |-> [Keyed(<< <<"items", Obj("itemsP")>> >>) EXCEPT !.vraw = "cartStateRaw"],
    cartRaw   |-> Keyed(<< <<"$id", Str("cart")>>, <<"$state", Obj("cartState")>>,
                          <<"items", Obj("itemsRef")>>, <<"total", Obj("totalC")>> >>),
    cart      |-> [Keyed(<< <<"$id", Str("cart")>>, <<"$state", Obj("cartState")>>,
                           <<"items", Obj("itemsP")>>, <<"total", Unwrapped("totalC")>> >>)
                     EXCEPT !.vraw = "cartRaw"],
    \* handles of no store: a ref and a plain array; and a toRef of the store
    otherRef  |-> [Thing EXCEPT !.isRef = TRUE],
    looseArr  |-> [Thing EXCEPT !.isArray = TRUE],
    countToRef |-> [Thing EXCEPT !.isRef = TRUE, !.object = "counter", !.key = "count"] ]

\* propName.startsWith('$') || propName.startsWith('_'), for the names in World
InternalNames == {"$id", "$state"}

\* obj[k]
Get(id, k) == IF k \in DOMAIN World[id].props THEN World[id].props[k] ELSE Undef
\* x?.[k]
PropOf(x, k) == IF x.ty = "object" THEN Get(x.v, k) ELSE Undef
\* x?.__v_raw
VRaw(x) == IF x.ty = "object" /\ World[x.v].vraw # "" THEN Obj(World[x.v].vraw) ELSE Undef
\* x?.__v_isRef === true
IsRefV(x) == x.ty = "object" /\ World[x.v].isRef
\* x?.__v_isComputed === true || x?.effect !== undefined
IsComputedV(x) == x.ty = "object" /\ (World[x.v].isComputed \/ World[x.v].effect # "")
\* x.dep, x.effect, x.computed, x._object
DepOf(x) == IF x.ty = "object" /\ World[x.v].dep # "" THEN Obj(World[x.v].dep) ELSE Undef
EffectOf(x) == IF x.ty = "object" /\ World[x.v].effect # "" THEN Obj(World[x.v].effect) ELSE Undef
ComputedOf(x) == IF x.ty = "object" /\ World[x.v].computed # "" THEN Obj(World[x.v].computed) ELSE Undef
SourceOf(x) == IF x.ty = "object" /\ World[x.v].object # "" THEN Obj(World[x.v].object) ELSE Undef

\* StorePropertyInfo, and undefined
Info(storeId, propName, propType) ==
  [storeId |-> storeId, propName |-> propName, propType |-> propType]
NoInfo == [storeId |-> "", propName |-> "", propType |-> ""]

\* new PiniaTracker(): registeredStores keeps the order of insertion
NewTracker ==
  [refToStoreMap |-> EmptyMap, registeredStores |-> <<>>,
   getterValueCache |-> EmptyMap, propToRefMap |-> EmptyMap]

\* registeredStores.has(storeId)
HasStore(tr, storeId) ==
  \E i \in DOMAIN tr.registeredStores : tr.registeredStores[i][1] = storeId

\* registeredStores.set(storeId, store)
SetStore(stores, storeId, store) ==
  IF \E i \in DOMAIN stores : stores[i][1] = storeId
  THEN [i \in DOMAIN stores |-> IF stores[i][1] = storeId THEN <<storeId, store>>
                                ELSE stores[i]]
  ELSE Append(stores, <<storeId, store>>)

\* registerStore, lines 104-125: the values of the state container
RECURSIVE StateProps(_, _, _, _)
StateProps(m, storeId, state, keys) ==
  IF keys = <<>> THEN m
  ELSE LET propName == Head(keys)
           propValue == Get(state, propName)
           info == Info(storeId, propName, "state")
           m1 == IF ~Falsy(propValue) /\ propValue.ty = "object"
                 THEN LET rawValue == VRaw(propValue)
                          a == MapSet(m, propValue.v, info)
                      IN  IF rawValue # Undef /\ rawValue # propValue
                          THEN MapSet(a, rawValue.v, info)
                          ELSE a
                 ELSE m
       IN  StateProps(m1, storeId, state, Tail(keys))

\* registerStore, lines 148-152: the value read through the store, or the one
\* of the raw store when only that one is a ref or a computed
PropValueOf(direct, rawValue, proxied) ==
  IF /\ ~IsRefV(direct)
     /\ ~IsComputedV(direct)
     /\ proxied
     /\ (IsRefV(rawValue) \/ IsComputedV(rawValue))
  THEN rawValue
  ELSE direct

\* registerStore, lines 161-183: a ref or a computed is entered under itself,
\* a computed under its dep too, and in propToRefMap
Entered(acc, storeId, propName, info, propValue, isComputed, dep) ==
  IF isComputed
  THEN [m |-> IF dep # Undef
              THEN MapSet(MapSet(acc.m, propValue.v, info), dep.v, info)
              ELSE MapSet(acc.m, propValue.v, info),
        p |-> MapSet(acc.p, <<storeId, propName>>, propValue.v)]
  ELSE [m |-> MapSet(acc.m, propValue.v, info), p |-> acc.p]

\* registerStore, lines 139-185: one member of the store
StoreProp(acc, storeId, propName, direct, propValue) ==
  IF propName \in InternalNames \/ direct.ty = "function"
     \/ ~(IsRefV(propValue) \/ IsComputedV(propValue))
  THEN acc
  ELSE Entered(acc, storeId, propName,
               Info(storeId, propName,
                    IF IsComputedV(propValue) THEN "getter" ELSE "state"),
               propValue, IsComputedV(propValue), DepOf(propValue))

\* registerStore, lines 139-185: the members of the store; acc is
\* [m |-> refToStoreMap, p |-> propToRefMap]
RECURSIVE StoreProps(_, _, _, _, _)
StoreProps(acc, storeId, store, rawStore, keys) ==
  IF keys = <<>> THEN acc
  ELSE StoreProps(StoreProp(acc, storeId, Head(keys), Get(store, Head(keys)),
                            PropValueOf(Get(store, Head(keys)),
                                        Get(rawStore, Head(keys)),
                                        rawStore # store)),
                  storeId, store, rawStore, Tail(keys))

\* registerStore, lines 188-200: the values of the raw state container
RECURSIVE RawStateProps(_, _, _, _)
RawStateProps(m, storeId, rawState, keys) ==
  IF keys = <<>> THEN m
  ELSE LET propName == Head(keys)
           propValue == Get(rawState, propName)
           m1 == IF ~Falsy(propValue) /\ propValue.ty = "object"
                 THEN MapSet(m, propValue.v, Info(storeId, propName, "state"))
                 ELSE m
       IN  RawStateProps(m1, storeId, rawState, Tail(keys))

\* PiniaTracker.snapshotGetterValues, the loop of lines 469-484
RECURSIVE SnapshotProps(_, _, _, _, _)
SnapshotProps(cache, storeId, store, stateKeys, keys) ==
  IF keys = <<>> THEN cache
  ELSE LET propName == Head(keys)
           propValue == Now(Get(store, propName))
           c1 == IF propName \in InternalNames \/ propValue.ty = "function"
                    \/ propName \in stateKeys
                 THEN cache
                 ELSE MapSet(cache, <<storeId, propName>>, propValue)
       IN  SnapshotProps(c1, storeId, store, stateKeys, Tail(keys))

\* Object.keys(store.$state || {})
StateKeysOf(store) ==
  LET state == Get(store, "$state")
  IN  IF Falsy(state) THEN <<>> ELSE World[state.v].keys

\* PiniaTracker.snapshotGetterValues(storeId)
snapshotGetterValues(tr, storeId) ==
  IF ~HasStore(tr, storeId) THEN tr.getterValueCache
  ELSE LET i == CHOOSE j \in DOMAIN tr.registeredStores :
                  tr.registeredStores[j][1] = storeId
           store == tr.registeredStores[i][2]
       IN  SnapshotProps(tr.getterValueCache, storeId, store,
                         Range(StateKeysOf(store)), World[store].keys)

\* x.__v_raw || x
RawOf(x) == IF VRaw(x) # Undef THEN VRaw(x) ELSE x

\* registerStore, lines 86-126: the state container, its raw object and its values
StateEntered(m, storeId, state, info) ==
  IF Falsy(state) THEN m
  ELSE StateProps(IF VRaw(state) # Undef
                  THEN MapSet(MapSet(m, state.v, info), VRaw(state).v, info)
                  ELSE MapSet(m, state.v, info),
                  storeId, state.v, World[state.v].keys)

\* registerStore, lines 188-200: the raw state container, when there is one
RawStateEntered(m, storeId, state, rawState) ==
  IF ~Falsy(rawState) /\ rawState # state
  THEN RawStateProps(m, storeId, rawState.v, World[rawState.v].keys)
  ELSE m

\* registerStore, line 203: the getter values are cached last
Snapshotted(tr, storeId) ==
  [tr EXCEPT !.getterValueCache = snapshotGetterValues(tr, storeId)]

\* registerStore, lines 135-203, for the maps acc of the store's members
EnrolMembers(tr, storeId, store, state, acc) ==
  Snapshotted([refToStoreMap |-> RawStateEntered(acc.m, storeId, state, RawOf(state)),
               registeredStores |-> SetStore(tr.registeredStores, storeId, store.v),
               getterValueCache |-> tr.getterValueCache,
               propToRefMap |-> acc.p],
              storeId)

\* registerStore, lines 60-203, for the store's $id and $state
EnrolAs(tr, store, storeId, state) ==
  EnrolMembers(tr, storeId, store, state,
               StoreProps([m |-> StateEntered(tr.refToStoreMap, storeId, state,
                                              Info(storeId, "$state", "state")),
                           p |-> tr.propToRefMap],
                          storeId, store.v, RawOf(store).v, World[store.v].keys))

\* registerStore, lines 59-208: a store with a $id that is not registered yet
Enrol(tr, store) ==
  EnrolAs(tr, store, PropOf(store, "$id").v, PropOf(store, "$state"))

\* a variant of Registered without the check for a registered $id
RegisteredAlways(tr, store) ==
  IF Falsy(store) \/ Falsy(PropOf(store, "$id")) THEN tr
  ELSE Enrol(tr, store)

\* PiniaTracker.registerStore(store): the tracker after the call
Registered(tr, store) ==
  IF Falsy(store) \/ Falsy(PropOf(store, "$id")) THEN tr
  ELSE IF HasStore(tr, PropOf(store, "$id").v) THEN tr
  ELSE Enrol(tr, store)

\* lookupProperty, lines 247-262: one store's state values against the array
RECURSIVE ScanKeys(_, _, _, _, _)
ScanKeys(storeId, state, keys, target, raw) ==
  IF keys = <<>> THEN NoInfo
  ELSE LET stateValue == Get(state, Head(keys))
           rawStateValue == VRaw(stateValue)
       IN  IF stateValue = target \/ rawStateValue = target \/ rawStateValue = raw
           THEN Info(storeId, Head(keys), "state")
           ELSE ScanKeys(storeId, state, Tail(keys), target, raw)

\* lookupProperty, lines 245-263: the registered stores in order
RECURSIVE ScanStores(_, _, _)
ScanStores(stores, target, raw) ==
  IF stores = <<>> THEN NoInfo
  ELSE LET storeId == Head(stores)[1]
           store == Head(stores)[2]
           state == Get(store, "$state")
           hit == IF Falsy(state) THEN NoInfo
                  ELSE ScanKeys(storeId, state.v, World[state.v].keys, target, raw)
       IN  IF hit # NoInfo THEN hit ELSE ScanStores(Tail(stores), target, raw)

\* lookupProperty, lines 281-294: the store a toRef points back to
RECURSIVE BackPointer(_, _, _)
BackPointer(stores, sourceObject, keyName) ==
  IF stores = <<>> THEN NoInfo
  ELSE LET storeId == Head(stores)[1]
           store == Head(stores)[2]
       IN  IF sourceObject = Obj(store) \/ sourceObject = Get(store, "$state")
           THEN Info(storeId, keyName,
                     IF IsComputedV(Get(store, keyName)) THEN "getter" ELSE "state")
           ELSE BackPointer(Tail(stores), sourceObject, keyName)

\* refToStoreMap.get(x), undefined for a missing key
MapGet(tr, x) ==
  IF x.ty = "object" /\ Has(tr.refToStoreMap, x.v) THEN tr.refToStoreMap[x.v]
  ELSE NoInfo

\* PiniaTracker.lookupProperty(target); target is null, undefined or an object
lookupProperty(tr, target) ==
  IF Falsy(target) THEN NoInfo
  ELSE IF MapGet(tr, target) # NoInfo THEN MapGet(tr, target)
  ELSE LET raw == VRaw(target)
           scan == IF World[target.v].isArray
                   THEN ScanStores(tr.registeredStores, target, raw)
                   ELSE NoInfo
           back == IF SourceOf(target) # Undef /\ World[target.v].key # ""
                   THEN BackPointer(tr.registeredStores, SourceOf(target),
                                    World[target.v].key)
                   ELSE NoInfo
       IN  IF raw # Undef /\ MapGet(tr, raw) # NoInfo THEN MapGet(tr, raw)
           ELSE IF scan # NoInfo THEN scan
           ELSE IF back # NoInfo THEN back
           ELSE IF ComputedOf(EffectOf(target)) # Undef
                   /\ MapGet(tr, ComputedOf(EffectOf(target))) # NoInfo
           THEN MapGet(tr, ComputedOf(EffectOf(target)))
           ELSE IF ComputedOf(DepOf(target)) # Undef
           THEN MapGet(tr, ComputedOf(DepOf(target)))
           ELSE NoInfo

\* what a void call was given
RetVoidOf(call, arg) == [kind |-> "void", call |-> call, arg |-> arg]
\* what lookupProperty(target) returned
RetLookup(target, result) == [kind |-> "lookup", target |-> target, result |-> result]

\* PiniaTracker.registerStore(store)
registerStore(store) ==
  /\ piniaTracker' = Registered(piniaTracker, store)
  /\ ret' = RetVoidOf("registerStore", store)
  /\ cbCalls' = <<>>

\* PiniaTracker.reset
trackerReset ==
  /\ piniaTracker' = NewTracker
  /\ ret' = RetVoidOf("reset", Undef)
  /\ cbCalls' = <<>>

\* registeredStores.get(storeId), for a registered storeId
StoreOf(tr, storeId) ==
  tr.registeredStores[CHOOSE i \in DOMAIN tr.registeredStores :
                        tr.registeredStores[i][1] = storeId][2]

\* getGetterValueWithOld, lines 406-441: the pair it returns; the getter
\* functions called here return normally
GetterPair(tr, storeId, propName) ==
  [oldValue |-> GetOr(tr.getterValueCache, <<storeId, propName>>, Undef),
   newValue |-> IF Has(tr.propToRefMap, <<storeId, propName>>)
                THEN ValueNow(tr.propToRefMap[<<storeId, propName>>])
                ELSE IF HasStore(tr, storeId)
                THEN Now(Get(StoreOf(tr, storeId), propName))
                ELSE Undef]

\* what getGetterValueWithOld(storeId, propName) returned
RetGetter(storeId, propName, pair) ==
  [kind |-> "getter", storeId |-> storeId, propName |-> propName,
   oldValue |-> pair.oldValue, newValue |-> pair.newValue]

\* a variant of getGetterValueWithOld that stores the new value in the cache
getGetterValueCaching(storeId, propName) ==
  /\ piniaTracker' =
       [piniaTracker EXCEPT !.getterValueCache =
          MapSet(@, <<storeId, propName>>,
                 GetterPair(piniaTracker, storeId, propName).newValue)]
  /\ ret' = RetGetter(storeId, propName, GetterPair(piniaTracker, storeId, propName))
  /\ cbCalls' = <<>>

\* PiniaTracker.getGetterValueWithOld(storeId, propName)
getGetterValueWithOld(storeId, propName) ==
  /\ piniaTracker' = piniaTracker
  /\ ret' = RetGetter(storeId, propName, GetterPair(piniaTracker, storeId, propName))
  /\ cbCalls' = <<>>

\* snapshotAllGetterValues, lines 491-493: store after store
RECURSIVE SnapshotStores(_, _)
SnapshotStores(tr, stores) ==
  IF stores = <<>> THEN tr
  ELSE SnapshotStores(Snapshotted(tr, Head(stores)[1]), Tail(stores))

\* the tracker after PiniaTracker.snapshotAllGetterValues()
SnapshottedAll(tr) == SnapshotStores(tr, tr.registeredStores)

\* PiniaTracker.snapshotAllGetterValues()
snapshotAllGetterValues ==
  /\ piniaTracker' = SnapshottedAll(piniaTracker)
  /\ ret' = RetVoidOf("snapshotAllGetterValues", Undef)
  /\ cbCalls' = <<>>

\* the one element of a singleton
The(S) == CHOOSE t \in S : TRUE

\* PiniaTracker.lookupByValue, lines 332-361: the members of one store
RECURSIVE MatchKeys(_, _, _, _, _)
MatchKeys(storeId, store, stateKeys, keys, value) ==
  IF keys = <<>> THEN NoInfo
  ELSE IF Head(keys) \in InternalNames
          \/ Get(store, Head(keys)) = Fn
          \/ Head(keys) \in stateKeys
          \/ Now(Get(store, Head(keys))) # value
  THEN MatchKeys(storeId, store, stateKeys, Tail(keys), value)
  ELSE Info(storeId, Head(keys), "getter")

\* PiniaTracker.lookupByValue, lines 328-364: the registered stores in order
RECURSIVE MatchStores(_, _)
MatchStores(stores, value) ==
  IF stores = <<>> THEN NoInfo
  ELSE The({IF info # NoInfo THEN info ELSE MatchStores(Tail(stores), value) :
              info \in {MatchKeys(Head(stores)[1], Head(stores)[2],
                                  Range(StateKeysOf(Head(stores)[2])),
                                  World[Head(stores)[2]].keys, value)}})

\* a variant of lookupByValue that looks whatever the type of the event
lookupByValueAnyType(tr, value, type) == MatchStores(tr.registeredStores, value)

\* PiniaTracker.lookupByValue(value, type)
lookupByValue(tr, value, type) ==
  IF type # "get" THEN NoInfo ELSE MatchStores(tr.registeredStores, value)

\* piniaTracker.lookupProperty(h) for a reactive handle: a handle that is no
\* member of a store is in none of the tracker's maps and has none of the
\* fields lookupProperty follows
lookupHandle(tr, h) ==
  IF h \in StoreHandleIds THEN lookupProperty(tr, Obj(h)) ELSE NoInfo

\* lookupStoreProperty, lines 291-306: dep.dep?.computed and dep.dep?.target
\* of each link of the dependency chain, in the order they are looked up
RECURSIVE DepHandles(_)
DepHandles(deps) ==
  IF deps = <<>> THEN <<>>
  ELSE <<Head(deps).computed, Head(deps).target>> \o DepHandles(Tail(deps))

\* lookupStoreProperty: the objects handed to lookupProperty, in order: the
\* target, effect.computed, effect.fn, the dependency chain.  effect.deps is
\* the linked list of Vue 3.4+, never an array (lines 308-316), and the
\* second lookup of the target (lines 318-327) returns what the first did.
LookupOrder(target, effect) ==
  IF effect.present
  THEN <<target, effect.computed, effect.fn>> \o DepHandles(effect.deps)
  ELSE <<target>>

\* the first info found for the handles in order; an absent object is skipped
RECURSIVE FirstInfo(_, _)
FirstInfo(tr, handles) ==
  IF handles = <<>> THEN NoInfo
  ELSE The({IF info # NoInfo THEN info ELSE FirstInfo(tr, Tail(handles)) :
              info \in {lookupHandle(tr, Head(handles))}})

\* RenderRegistry.lookupStoreProperty(target, effect)
lookupStoreProperty(tr, target, effect) ==
  FirstInfo(tr, LookupOrder(target, effect))

\* ----------------------------------------------------------- operations

\* recordRenderTrigger, lines 175-255: the RenderTrigger built from an event.
\* uid is the identity of the new object (the serial number of the call);
\* whilePaused notes whether the registry was paused when it was built.
\* info is the store property the event was attributed to, NoInfo when there
\* is no PiniaTracker or no match; a getter's values are replaced by pair.
TriggerOf(x, info, pair, target, uid) ==
  [ key |-> IF info = NoInfo THEN x.key ELSE info.propName,
    type |-> x.type,
    oldValue |-> IF info.propType = "getter" THEN pair.oldValue ELSE x.oldValue,
    newValue |-> IF info.propType = "getter" THEN pair.newValue ELSE x.newValue,
    isNoOp |-> IF info.propType = "getter"
               THEN detectNoOp(pair.oldValue, pair.newValue)
               ELSE detectNoOp(x.oldValue, x.newValue),
    source |-> IF info = NoInfo THEN x.source ELSE "store",
    path |-> buildPath(target, IF info = NoInfo THEN x.key ELSE info.propName,
                       info.storeId),
    storeId |-> info.storeId,
    storePropName |-> info.propName,
    storePropType |-> info.propType,
    arrayIndex |-> IF IsArrayMutation(x.type, x.key) /\ x.key # NoKey
                      /\ x.key \notin SymbolKeys
                   THEN x.key ELSE NoKey,
    _computedRef |-> x.computedRef,
    uid |-> uid,
    whilePaused |-> isPaused ]

\* recordRenderTrigger, lines 192-199: the store property of the event
StoreInfoFor(event, x) ==
  IF ~options.enablePiniaTracking THEN NoInfo
  ELSE The({IF info # NoInfo THEN info
            ELSE lookupByValue(piniaTracker, x.newValue, x.type) :
              info \in {lookupStoreProperty(piniaTracker, event.target, event.effect)}})

\* a variant of AttributedTrigger that keeps what the extraction found
UnattributedTrigger(event, x, info, uid) ==
  The({TriggerOf(x, NoInfo, pair, event.target, uid) :
         pair \in {GetterPair(piniaTracker, info.storeId, info.propName)}})

\* recordRenderTrigger, lines 201-255
AttributedTrigger(event, x, info, uid) ==
  The({TriggerOf(x, info, pair, event.target, uid) :
         pair \in {GetterPair(piniaTracker, info.storeId, info.propName)}})

MakeTrigger(event, uid) ==
  The({The({AttributedTrigger(event, x, info, uid) : info \in {StoreInfoFor(event, x)}}) :
         x \in {Extract(event)}})

\* event.key ?? 'unknown'
KeyOrUnknown(event) == IF event.key = NoKey THEN "unknown" ELSE event.key

\* a variant of recordTrackedDependency without the sentinel for a missing key
recordTrackedDependencyRawKey(componentId, event) ==
  /\ ret' = Void
  /\ cbCalls' = <<>>
  /\ IF isPaused
     THEN UNCHANGED <<trackedDeps, registry>>
     ELSE /\ trackedDeps' =
               MapSet(trackedDeps, componentId,
                      GetOr(trackedDeps, componentId, {}) \cup {event.key})
          /\ registry' = TrackInHistory(componentId, event.key)
  /\ UNCHANGED <<options, isPaused, pendingTriggers, totalRenders, rendersByComponent,
                 noOpRenderCount, lastRenderTime, throttledEvents,
                 initialRenderComplete, shared>>

\* RenderRegistry.recordTrackedDependency(componentId, _componentName, event)
recordTrackedDependency(componentId, event) ==
  /\ ret' = Void
  /\ cbCalls' = <<>>
  /\ IF isPaused
     THEN UNCHANGED <<trackedDeps, registry>>
     ELSE /\ trackedDeps' =
               MapSet(trackedDeps, componentId,
                      GetOr(trackedDeps, componentId, {}) \cup {KeyOrUnknown(event)})
          /\ registry' = TrackInHistory(componentId, KeyOrUnknown(event))
  /\ UNCHANGED <<options, isPaused, pendingTriggers, totalRenders, rendersByComponent,
                 noOpRenderCount, lastRenderTime, throttledEvents,
                 initialRenderComplete, shared>>

\* a variant of recordRenderTrigger without the pause check
recordRenderTriggerAlways(componentId, event, uid) ==
  /\ ret' = Void
  /\ cbCalls' = <<>>
  /\ pendingTriggers' =
       MapSet(pendingTriggers, componentId,
              Append(GetOr(pendingTriggers, componentId, <<>>),
                     MakeTrigger(event, uid)))
  /\ registry' = PushInHistory(componentId, MakeTrigger(event, uid))
  /\ UNCHANGED <<options, isPaused, trackedDeps, totalRenders, rendersByComponent,
                 noOpRenderCount, lastRenderTime, throttledEvents,
                 initialRenderComplete, shared>>

\* RenderRegistry.recordRenderTrigger(componentId, _componentName, event)
recordRenderTrigger(componentId, event, uid) ==
  /\ ret' = Void
  /\ cbCalls' = <<>>
  /\ IF isPaused
     THEN UNCHANGED <<pendingTriggers, registry>>
     ELSE /\ pendingTriggers' =
               MapSet(pendingTriggers, componentId,
                      Append(GetOr(pendingTriggers, componentId, <<>>),
                             MakeTrigger(event, uid)))
          /\ registry' = PushInHistory(componentId, MakeTrigger(event, uid))
  /\ UNCHANGED <<options, isPaused, trackedDeps, totalRenders, rendersByComponent,
                 noOpRenderCount, lastRenderTime, throttledEvents,
                 initialRenderComplete, shared>>

\* finalizeRender, lines 350-364: a deferred computed value is read now.
\* reads[h] is what reading h.value yields at this commit.
Resolve(trigger, reads) ==
  IF trigger._computedRef # NoHandle /\ trigger.source = "computed"
  THEN IF reads[trigger._computedRef].throws
       THEN [trigger EXCEPT !.newValue = Str("[error reading computed]"),
                            !._computedRef = NoHandle]
       ELSE [trigger EXCEPT !.newValue = reads[trigger._computedRef].value,
                            !.isNoOp = detectNoOp(trigger.oldValue,
                                                  reads[trigger._computedRef].value),
                            !._computedRef = NoHandle]
  ELSE trigger

\* finalizeRender, line 346
isInitialRender(componentId) == componentId \notin initialRenderComplete

\* a variant of MarkRendered that never sets the flag
MarkNothing(componentId) == initialRenderComplete

\* finalizeRender, lines 367-369: the has-rendered flag after the call
MarkRendered(componentId) == initialRenderComplete \cup {componentId}

\* finalizeRender, lines 386-390: is this call inside the throttle interval
ThrottledNever(componentId, now) == FALSE

Throttled(componentId, now) ==
  /\ options.throttleMs > 0
  /\ now - GetOr(lastRenderTime, componentId, 0) < options.throttleMs

\* a variant of ClearBuffers that leaves the tracked keys in place
ClearPendingOnly(componentId) ==
  /\ pendingTriggers' = MapDelete(pendingTriggers, componentId)
  /\ UNCHANGED trackedDeps

\* finalizeRender, lines 399-400 and 436-437
ClearBuffers(componentId) ==
  /\ pendingTriggers' = MapDelete(pendingTriggers, componentId)
  /\ trackedDeps' = MapDelete(trackedDeps, componentId)

\* a variant of UpdateStats that overwrites the per-name count
UpdateStatsFlat(componentName, out) ==
  /\ totalRenders' = totalRenders + 1
  /\ rendersByComponent' = MapSet(rendersByComponent, componentName, 1)
  /\ noOpRenderCount' =
       IF \E i \in DOMAIN out.triggers : out.triggers[i].isNoOp
       THEN noOpRenderCount + 1 ELSE noOpRenderCount

\* a variant of UpdateStats that counts every no-op trigger
UpdateStatsPerTrigger(componentName, out) ==
  /\ totalRenders' = totalRenders + 1
  /\ rendersByComponent' =
       MapSet(rendersByComponent, componentName,
              GetOr(rendersByComponent, componentName, 0) + 1)
  /\ noOpRenderCount' =
       noOpRenderCount
         + Cardinality({i \in DOMAIN out.triggers : out.triggers[i].isNoOp})

\* finalizeRender, lines 414-421
UpdateStats(componentName, out) ==
  /\ totalRenders' = totalRenders + 1
  /\ rendersByComponent' =
       MapSet(rendersByComponent, componentName,
              GetOr(rendersByComponent, componentName, 0) + 1)
  /\ noOpRenderCount' =
       IF \E i \in DOMAIN out.triggers : out.triggers[i].isNoOp
       THEN noOpRenderCount + 1 ELSE noOpRenderCount

\* a variant of InvokeOnRender that calls the callback twice
MergeHeldLast(heldTriggers, triggers) == triggers \o heldTriggers

\* event.triggers = [...throttled.triggers, ...event.triggers]
MergeHeld(heldTriggers, triggers) == heldTriggers \o triggers

InvokeOnRenderTwice(out) == IF options.onRender THEN <<out, out>> ELSE <<>>

\* finalizeRender, lines 426-428: the events options.onRender is called with
InvokeOnRender(out) == IF options.onRender THEN <<out>> ELSE <<>>

\* finalizeRender, lines 430-434: the getter values are snapshotted
AfterRender(tr) == IF options.enablePiniaTracking THEN SnapshottedAll(tr) ELSE tr

\* RenderRegistry.finalizeRender(componentId, componentName); Date.now() is
\* clock', and options.onRender returns normally
finalizeRenderWith(componentId, componentName, reads, raises) ==
  IF isPaused
  THEN /\ ret' = RetNull(componentId)
       /\ cbCalls' = <<>>
       /\ UNCHANGED <<progVars, piniaTracker>>
  ELSE
    LET pending == GetOr(pendingTriggers, componentId, <<>>)
        triggers == [i \in DOMAIN pending |-> Resolve(pending[i], reads)]
        tracked == GetOr(trackedDeps, componentId, {})
        now == clock'
        renderCount == GetOr(rendersByComponent, componentName, 0)
        event == [ componentName |-> componentName,
                   componentId |-> componentId,
                   timestamp |-> now,
                   triggers |-> triggers,
                   tracked |-> tracked,
                   isInitialRender |-> isInitialRender(componentId),
                   rerenderReason |-> inferReason(triggers),
                   renderCount |-> renderCount ]
        \* lines 350-364 write into the trigger objects of the pending array
        history == IF Has(shared, <<"triggers", componentId>>)
                   THEN [registry EXCEPT
                           ![shared[<<"triggers", componentId>>]].triggers = triggers]
                   ELSE registry
    IN
      /\ initialRenderComplete' = MarkRendered(componentId)
      /\ UNCHANGED <<options, isPaused>>
      /\ IF Throttled(componentId, now)
         THEN /\ throttledEvents' =
                   IF Has(throttledEvents, componentId)
                   THEN [throttledEvents EXCEPT ![componentId].triggers = @ \o triggers]
                   ELSE MapSet(throttledEvents, componentId, event)
              /\ registry' =
                   IF Has(throttledEvents, componentId)
                      /\ Has(shared, <<"held", componentId>>)
                   THEN [history EXCEPT
                           ![shared[<<"held", componentId>>]].triggers = @ \o triggers]
                   ELSE history
              \* { ...event } keeps the trigger array of the event
              /\ shared' =
                   LET kept == [x \in DOMAIN shared \ {<<"triggers", componentId>>,
                                                       <<"tracked", componentId>>}
                                  |-> shared[x]]
                   IN  IF ~Has(throttledEvents, componentId)
                          /\ Has(shared, <<"triggers", componentId>>)
                       THEN MapSet(kept, <<"held", componentId>>,
                                   shared[<<"triggers", componentId>>])
                       ELSE kept
              /\ ClearBuffers(componentId)
              /\ ret' = RetNull(componentId)
              /\ cbCalls' = <<>>
              /\ UNCHANGED <<totalRenders, rendersByComponent, noOpRenderCount,
                             lastRenderTime, piniaTracker>>
         ELSE
           LET held == options.throttleMs > 0 /\ Has(throttledEvents, componentId)
               out == IF held
                      THEN [event EXCEPT !.triggers =
                              MergeHeld(throttledEvents[componentId].triggers, triggers)]
                      ELSE event
               key == <<componentId, out.timestamp>>
           IN  /\ throttledEvents' = IF held THEN MapDelete(throttledEvents, componentId)
                                     ELSE throttledEvents
               /\ lastRenderTime' = MapSet(lastRenderTime, componentId, now)
               /\ UpdateStats(componentName, out)
               /\ registry' = MapSet(history, key, out)
               /\ cbCalls' = InvokeOnRender(out)
               /\ IF raises /\ options.onRender
                  THEN \* lines 432-437 are not reached: the buffers stay, and the
                       \* stored event holds the same array and the same Set
                       /\ pendingTriggers' =
                            IF Has(pendingTriggers, componentId)
                            THEN MapSet(pendingTriggers, componentId, triggers)
                            ELSE pendingTriggers
                       /\ UNCHANGED trackedDeps
                       /\ shared' =
                            LET s0 == IF held
                                      THEN MapDelete(shared, <<"held", componentId>>)
                                      ELSE shared
                                s1 == IF Has(pendingTriggers, componentId) /\ ~held
                                      THEN MapSet(s0, <<"triggers", componentId>>, key)
                                      ELSE s0
                            IN  IF Has(trackedDeps, componentId)
                                THEN MapSet(s1, <<"tracked", componentId>>, key)
                                ELSE s1
                       /\ ret' = RetRaised(componentId, componentName, out)
                       /\ UNCHANGED piniaTracker
                  ELSE /\ piniaTracker' = AfterRender(piniaTracker)
                       /\ ClearBuffers(componentId)
                       /\ shared' = DropShared(componentId)
                       /\ ret' = RetEvent(componentId, componentName, out)

\* RenderRegistry.finalizeRender(componentId, componentName) with a callback,
\* if there is one, that returns
finalizeRender(componentId, componentName, reads) ==
  finalizeRenderWith(componentId, componentName, reads, FALSE)

\* a variant of pause that also drops the pending triggers
pauseAndDrop ==
  /\ isPaused' = TRUE
  /\ pendingTriggers' = EmptyMap
  /\ ret' = Void
  /\ cbCalls' = <<>>
  /\ UNCHANGED <<options, trackedDeps, totalRenders, rendersByComponent,
                 noOpRenderCount, lastRenderTime, throttledEvents,
                 initialRenderComplete, registry, shared>>

\* RenderRegistry.pause
pause ==
  /\ isPaused' = TRUE
  /\ ret' = Void
  /\ cbCalls' = <<>>
  /\ UNCHANGED <<options, trackedDeps, pendingTriggers, totalRenders, rendersByComponent,
                 noOpRenderCount, lastRenderTime, throttledEvents,
                 initialRenderComplete, registry, shared>>

\* RenderRegistry.resume
resume ==
  /\ isPaused' = FALSE
  /\ ret' = Void
  /\ cbCalls' = <<>>
  /\ UNCHANGED <<options, trackedDeps, pendingTriggers, totalRenders, rendersByComponent,
                 noOpRenderCount, lastRenderTime, throttledEvents,
                 initialRenderComplete, registry, shared>>

\* a variant of reset that keeps the has-rendered flags
resetKeepFlags ==
  /\ registry' = EmptyMap
  /\ shared' = EmptyMap
  /\ trackedDeps' = EmptyMap
  /\ pendingTriggers' = EmptyMap
  /\ totalRenders' = 0
  /\ rendersByComponent' = EmptyMap
  /\ noOpRenderCount' = 0
  /\ lastRenderTime' = EmptyMap
  /\ throttledEvents' = EmptyMap
  /\ ret' = Void
  /\ cbCalls' = <<>>
  /\ UNCHANGED <<options, isPaused, initialRenderComplete>>

\* RenderRegistry.reset
reset ==
  /\ registry' = EmptyMap
  /\ shared' = EmptyMap
  /\ trackedDeps' = EmptyMap
  /\ pendingTriggers' = EmptyMap
  /\ totalRenders' = 0
  /\ rendersByComponent' = EmptyMap
  /\ noOpRenderCount' = 0
  /\ lastRenderTime' = EmptyMap
  /\ throttledEvents' = EmptyMap
  /\ initialRenderComplete' = {}
  /\ ret' = Void
  /\ cbCalls' = <<>>
  /\ UNCHANGED <<options, isPaused>>

\* a variant of cleanupComponent that clears every has-rendered flag
cleanupAllFlags(componentId) ==
  /\ trackedDeps' = MapDelete(trackedDeps, componentId)
  /\ pendingTriggers' = MapDelete(pendingTriggers, componentId)
  /\ shared' = DropShared(componentId)
  /\ lastRenderTime' = MapDelete(lastRenderTime, componentId)
  /\ throttledEvents' = MapDelete(throttledEvents, componentId)
  /\ initialRenderComplete' = {}
  /\ ret' = Void
  /\ cbCalls' = <<>>
  /\ UNCHANGED <<options, isPaused, totalRenders, rendersByComponent, noOpRenderCount,
                 registry>>

\* a variant of cleanupComponent that keeps the held event
cleanupKeepHeld(componentId) ==
  /\ trackedDeps' = MapDelete(trackedDeps, componentId)
  /\ pendingTriggers' = MapDelete(pendingTriggers, componentId)
  /\ shared' = DropShared(componentId)
  /\ lastRenderTime' = MapDelete(lastRenderTime, componentId)
  /\ initialRenderComplete' = initialRenderComplete \ {componentId}
  /\ ret' = Void
  /\ cbCalls' = <<>>
  /\ UNCHANGED <<options, isPaused, totalRenders, rendersByComponent, noOpRenderCount,
                 registry, throttledEvents>>

\* RenderRegistry.cleanupComponent
cleanupComponent(componentId) ==
  /\ trackedDeps' = MapDelete(trackedDeps, componentId)
  /\ pendingTriggers' = MapDelete(pendingTriggers, componentId)
  /\ shared' = DropShared(componentId)
  /\ lastRenderTime' = MapDelete(lastRenderTime, componentId)
  /\ throttledEvents' = MapDelete(throttledEvents, componentId)
  /\ initialRenderComplete' = initialRenderComplete \ {componentId}
  /\ ret' = Void
  /\ cbCalls' = <<>>
  /\ UNCHANGED <<options, isPaused, totalRenders, rendersByComponent, noOpRenderCount,
                 registry>>

\* RenderRegistry.getStats
getStats ==
  [ totalRenders |-> totalRenders,
    byComponent |-> rendersByComponent,
    noOpRenders |-> noOpRenderCount ]

\* ------------------------------------------------------- the state machine

\* The events the hooks deliver in this specification: a real change and a
\* no-op write on a plain reactive object, and a computed whose value is read
\* at commit.
evChange == Event("plain", Effect(<<>>), "set", "count", Num("1"), Num("2"))
evNoOp == Event("plain", Effect(<<>>), "set", "count", Num("5"), Num("5"))
evComputed == Event("compH", Effect(<<>>), "set", "value", Undef, Undef)
TriggerEvents == {evChange, evNoOp, evComputed}

\* render-tracked events: only the key is read
TrackedEvents == {Event("plain", Effect(<<>>), "get", "count", Undef, Undef),
                  Event("plain", Effect(<<>>), "iterate", NoKey, Undef, Undef)}

\* what reading a computed's .value yields at a commit
ReadOutcomes == {[throws |-> FALSE, value |-> Num("1")],
                 [throws |-> FALSE, value |-> Num("2")],
                 [throws |-> TRUE, value |-> Undef]}
CommitReads ==
  {[h \in DOMAIN Handles |->
      IF h \in StoreHandleIds THEN [throws |-> FALSE, value |-> ValueNow(h)] ELSE o]
     : o \in ReadOutcomes}
\* the reads a commit of id can make: none unless a trigger of id is deferred
ReadsFor(id) ==
  LET pending == GetOr(pendingTriggers, id, <<>>)
  IN  IF \E i \in DOMAIN pending : pending[i]._computedRef # NoHandle
      THEN CommitReads
      ELSE {[h \in DOMAIN Handles |-> [throws |-> FALSE, value |-> Undef]]}

\* the registry after new RenderRegistry(options)
InitOf(tracking, logging, levels) ==
  /\ options \in [throttleMs : ThrottleChoices, onRender : {TRUE},
                  enablePiniaTracking : tracking,
                  logOnConsole : logging, logLevel : levels]
  /\ \E pauseOnInit \in BOOLEAN : isPaused = pauseOnInit
  /\ trackedDeps = EmptyMap
  /\ pendingTriggers = EmptyMap
  /\ totalRenders = 0
  /\ rendersByComponent = EmptyMap
  /\ noOpRenderCount = 0
  /\ lastRenderTime = EmptyMap
  /\ throttledEvents = EmptyMap
  /\ initialRenderComplete = {}
  /\ registry = EmptyMap
  /\ clock = StartTime
  /\ ret = Void
  /\ cbCalls = <<>>
  /\ nCalls = 0
  /\ nFinal = 0
  /\ lastDropped = 0
  /\ sinceTriggers = [i \in Ids |-> <<>>]
  /\ sinceKeys = [i \in Ids |-> {}]
  /\ emitted = [n \in Names |-> 0]
  /\ seen = [i \in Ids |-> "never"]
  /\ seenBefore = ""
  /\ sinceEmit = [i \in Ids |-> <<>>]
  /\ lastEmitAt = [i \in Ids |-> 0]
  /\ heldBefore = <<>>
  /\ shared = EmptyMap
  /\ piniaTracker = NewTracker
  /\ storeNow = 0
  /\ oldSeen = EmptyMap
  /\ mounted = {}
  /\ logged = <<>>
  /\ hookCalls = <<>>

\* the options enableWhyDidYouRender fills in: logOnConsole and logLevel 'warn'
InitWith(tracking) == InitOf(tracking, {TRUE}, {"warn"})

\* options.enablePiniaTracking is absent
Init == InitWith({FALSE})

RecordTrackedOf(ids) ==
  \E id \in ids, ev \in TrackedEvents :
    /\ nCalls < MaxCalls
    /\ nCalls' = nCalls + 1
    /\ recordTrackedDependency(id, ev)
    /\ lastDropped' = IF isPaused THEN nCalls + 1 ELSE lastDropped
    /\ sinceKeys' = IF isPaused THEN sinceKeys
                    ELSE [sinceKeys EXCEPT ![id] = @ \cup {KeyOrUnknown(ev)}]
    /\ seenBefore' = ""
    /\ heldBefore' = <<>>
    /\ UNCHANGED <<clock, nFinal, sinceTriggers, emitted, seen, sinceEmit, lastEmitAt,
                   storeVars, pluginVars>>

RecordTracked == RecordTrackedOf(Ids)

RecordTriggerOf(ids, events) ==
  \E id \in ids, ev \in events :
    /\ nCalls < MaxCalls
    /\ nCalls' = nCalls + 1
    /\ recordRenderTrigger(id, ev, nCalls + 1)
    /\ lastDropped' = IF isPaused THEN nCalls + 1 ELSE lastDropped
    /\ sinceTriggers' = IF isPaused THEN sinceTriggers
                        ELSE [sinceTriggers EXCEPT ![id] = Append(@, nCalls + 1)]
    /\ seenBefore' = ""
    /\ heldBefore' = <<>>
    /\ sinceEmit' = IF isPaused THEN sinceEmit
                    ELSE [sinceEmit EXCEPT ![id] = Append(@, nCalls + 1)]
    /\ UNCHANGED <<clock, nFinal, sinceKeys, emitted, seen, lastEmitAt, storeVars, pluginVars>>

RecordTrigger == RecordTriggerOf(Ids, TriggerEvents)

\* the call passed an event to the history and to the callback
Emitted(r) == r.kind \in {"event", "raised"}

FinalizeWith(ids, limit, outcomes) ==
  \E id \in ids : \E name \in NamesOf(id), reads \in ReadsFor(id), dt \in Elapse,
                   raises \in outcomes :
    /\ isPaused \/ nFinal < limit
    /\ nFinal' = IF isPaused THEN nFinal ELSE nFinal + 1
    /\ clock' = IF isPaused THEN clock ELSE clock + dt
    /\ finalizeRenderWith(id, name, reads, raises)
    /\ sinceTriggers' = IF isPaused THEN sinceTriggers
                        ELSE [sinceTriggers EXCEPT ![id] = <<>>]
    /\ sinceKeys' = IF isPaused THEN sinceKeys ELSE [sinceKeys EXCEPT ![id] = {}]
    /\ emitted' = IF Emitted(ret') THEN [emitted EXCEPT ![name] = @ + 1]
                  ELSE emitted
    /\ seen' = IF isPaused THEN seen ELSE [seen EXCEPT ![id] = "finalized"]
    /\ seenBefore' = IF isPaused THEN "" ELSE seen[id]
    /\ heldBefore' = IF ~isPaused /\ Has(throttledEvents, id)
                    THEN [k \in 1..Len(throttledEvents[id].triggers) |->
                            throttledEvents[id].triggers[k].uid]
                    ELSE <<>>
    /\ sinceEmit' = IF Emitted(ret') THEN [sinceEmit EXCEPT ![id] = <<>>]
                    ELSE sinceEmit
    /\ lastEmitAt' = IF Emitted(ret') THEN [lastEmitAt EXCEPT ![id] = clock']
                     ELSE lastEmitAt
    /\ UNCHANGED <<nCalls, lastDropped, storeNow, oldSeen>>

\* the callback, if there is one, returns
FinalizeOf(ids, limit) ==
  /\ FinalizeWith(ids, limit, {FALSE})
  /\ UNCHANGED pluginVars

Finalize == FinalizeOf(Ids, MaxRenders)

Pause ==
  /\ pause
  /\ seenBefore' = ""
  /\ heldBefore' = <<>>
  /\ UNCHANGED <<clock, nCalls, nFinal, lastDropped, sinceTriggers, sinceKeys,
                 emitted, seen, sinceEmit, lastEmitAt, storeVars, pluginVars>>

Resume ==
  /\ resume
  /\ seenBefore' = ""
  /\ heldBefore' = <<>>
  /\ UNCHANGED <<clock, nCalls, nFinal, lastDropped, sinceTriggers, sinceKeys,
                 emitted, seen, sinceEmit, lastEmitAt, storeVars, pluginVars>>

Reset ==
  /\ reset
  /\ sinceTriggers' = [i \in Ids |-> <<>>]
  /\ sinceKeys' = [i \in Ids |-> {}]
  /\ emitted' = [n \in Names |-> 0]
  /\ seen' = [i \in Ids |-> IF seen[i] = "never" THEN "never" ELSE "forgotten"]
  /\ sinceEmit' = [i \in Ids |-> <<>>]
  /\ lastEmitAt' = [i \in Ids |-> 0]
  /\ seenBefore' = ""
  /\ heldBefore' = <<>>
  /\ UNCHANGED <<clock, nCalls, nFinal, lastDropped, storeVars, pluginVars>>

CleanupOf(ids) ==
  \E id \in ids :
    /\ cleanupComponent(id)
    /\ sinceTriggers' = [sinceTriggers EXCEPT ![id] = <<>>]
    /\ sinceKeys' = [sinceKeys EXCEPT ![id] = {}]
    /\ seen' = [seen EXCEPT ![id] = IF @ = "finalized" THEN "cleaned" ELSE @]
    /\ sinceEmit' = [sinceEmit EXCEPT ![id] = <<>>]
    /\ lastEmitAt' = [lastEmitAt EXCEPT ![id] = 0]
    /\ seenBefore' = ""
    /\ heldBefore' = <<>>
    /\ UNCHANGED <<clock, nCalls, nFinal, lastDropped, emitted, storeVars, pluginVars>>

Cleanup == CleanupOf(Ids)

Next ==
  \/ RecordTracked
  \/ RecordTrigger
  \/ Finalize
  \/ Pause
  \/ Resume
  \/ Reset
  \/ Cleanup

Spec == Init /\ [][Next]_vars

\* The throttling specification: one component of a registry built with a
\* throttle interval and not paused, run through more render cycles than
\* Spec allows.
ThrottleIds == {"c1"}

InitThrottle ==
  /\ Init
  /\ options.throttleMs > 0
  /\ ~isPaused

ThrottleRecord == RecordTriggerOf(ThrottleIds, TriggerEvents)
ThrottleFinalize == FinalizeOf(ThrottleIds, MaxCycles)
ThrottleCleanup == CleanupOf(ThrottleIds)

NextThrottle ==
  \/ ThrottleRecord
  \/ ThrottleFinalize
  \/ ThrottleCleanup
  \/ Reset

SpecThrottle == InitThrottle /\ [][NextThrottle]_vars

\* The specification of a callback that may raise: one component of a
\* registry that is not paused, with or without a throttle interval.
InitRaise ==
  /\ Init
  /\ ~isPaused

RaiseTracked == RecordTrackedOf(ThrottleIds)

\* finalizeRender with a callback that raises when it is called
RaisingFinalize ==
  /\ FinalizeWith(ThrottleIds, MaxCycles, {TRUE})
  /\ UNCHANGED pluginVars

NextRaise ==
  \/ RaiseTracked
  \/ ThrottleRecord
  \/ ThrottleFinalize
  \/ RaisingFinalize
  \/ ThrottleCleanup
  \/ Reset

SpecRaise == InitRaise /\ [][NextRaise]_vars

\* The specification of the no-op detector: one 'set' event on a plain
\* target, with old and new value drawn from NoOpValues, is recorded and the
\* render finalized.
NoOpValues ==
  {Undef, Null, Num("1"), Num("5"), Str("5")} \cup {Obj(id) : id \in ObjIds}

NoOpEvents ==
  {Event("plain", Effect(<<>>), "set", "count", o, n) : o, n \in NoOpValues}

InitNoOp ==
  /\ Init
  /\ options.throttleMs = 0
  /\ ~isPaused

NoOpRecord ==
  /\ nCalls < MaxProbes
  /\ RecordTriggerOf(ThrottleIds, NoOpEvents)

NoOpFinalize == FinalizeOf(ThrottleIds, MaxProbes)

NextNoOp ==
  \/ NoOpRecord
  \/ NoOpFinalize

SpecNoOp == InitNoOp /\ [][NextNoOp]_vars

\* The specification of the store tracker: stores are registered and handles
\* looked up in any order.
StoreInputs == {Null, Obj("counter"), Obj("counter2"), Obj("noId"), Obj("cart")}
LookupTargets == {Null, Undef} \cup {Obj(id) : id \in DOMAIN World}

\* what the registry and the history variables hold is left alone
TrackerFrame ==
  UNCHANGED <<progVars, clock, nCalls, nFinal, lastDropped, sinceTriggers, sinceKeys,
              emitted, seen, seenBefore, sinceEmit, lastEmitAt, heldBefore, storeNow,
              pluginVars>>

\* registerStore takes a snapshot when it enrols the store
RegisterStoreOf(inputs) ==
  \E store \in inputs :
    /\ registerStore(store)
    /\ oldSeen' = IF piniaTracker' # piniaTracker THEN EmptyMap ELSE oldSeen
    /\ TrackerFrame

RegisterStore == RegisterStoreOf(StoreInputs)

LookupProperty ==
  \E target \in LookupTargets :
    /\ ret' = RetLookup(target, lookupProperty(piniaTracker, target))
    /\ cbCalls' = <<>>
    /\ UNCHANGED <<piniaTracker, oldSeen>>
    /\ TrackerFrame

TrackerReset ==
  /\ trackerReset
  /\ oldSeen' = [k \in DOMAIN oldSeen |-> [oldSeen[k] EXCEPT !.cleared = TRUE]]
  /\ TrackerFrame

NextPinia ==
  \/ RegisterStore
  \/ LookupProperty
  \/ TrackerReset

SpecPinia == Init /\ [][NextPinia]_vars

\* The specification of the getter cache: stores are registered, their state
\* is mutated, getter pairs are read and snapshots taken, in any order.
GetterStores == {Obj("counter"), Obj("cart")}
GetterKeys == {<<"cart", "total">>, <<"cart", "items">>, <<"counter", "double">>,
               <<"counter", "staticValue">>}

GetterRegister == RegisterStoreOf(GetterStores)

\* the frame of a call that leaves the tracker's environment alone
GetterFrame ==
  UNCHANGED <<progVars, clock, nCalls, nFinal, lastDropped, sinceTriggers, sinceKeys,
              emitted, seen, seenBefore, sinceEmit, lastEmitAt, heldBefore, pluginVars>>

\* an action of a store runs: the state changes and with it the getters
MutateStore ==
  /\ storeNow < MaxMutations
  /\ storeNow' = storeNow + 1
  /\ UNCHANGED <<ret, cbCalls, piniaTracker, oldSeen>>
  /\ GetterFrame

GetGetter ==
  \E k \in GetterKeys :
    /\ getGetterValueWithOld(k[1], k[2])
    /\ oldSeen' = MapSet(oldSeen, k, [old |-> ret'.oldValue, cleared |-> FALSE,
                                     again |-> Has(oldSeen, k)])
    /\ UNCHANGED storeNow
    /\ GetterFrame

SnapshotAll ==
  /\ snapshotAllGetterValues
  /\ oldSeen' = EmptyMap
  /\ UNCHANGED storeNow
  /\ GetterFrame

NextGetter ==
  \/ GetterRegister
  \/ MutateStore
  \/ GetGetter
  \/ SnapshotAll
  \/ TrackerReset

SpecGetter == Init /\ [][NextGetter]_vars

\* The specification of the classifier: one event, drawn from the shapes the
\* hooks can deliver (with a target of any kind, with only an effect and its
\* dependency chain, or with neither), is recorded for one component and its
\* renders are finalized.
ClassifyValues == {Undef, Num("1"), Num("2")}

TargetEvents ==
  {Event(h, Effect(<<>>), ty, k, o, n) :
     h \in HandleIds, ty \in {NoType, "set", "get"}, k \in {NoKey, "value"},
     o \in ClassifyValues, n \in ClassifyValues}

\* dependency chains: empty, without a usable link, and with computed and ref
\* links at several positions
Chains ==
  { <<>>,
    <<Dep(NoHandle, "plain")>>,
    <<Dep("compH", NoHandle)>>,
    <<Dep(NoHandle, "refH")>>,
    <<Dep(NoHandle, "refBad")>>,
    <<Dep("compBad", NoHandle)>>,
    <<Dep(NoHandle, "plain"), Dep(NoHandle, "refH"), Dep("compH", NoHandle)>>,
    <<Dep(NoHandle, NoHandle), Dep("compH", "refH")>>,
    <<Dep(NoHandle, "react"), Dep(NoHandle, "storeO")>> }

EffectEvents ==
  {Event(NoHandle, Effect(c), NoType, NoKey, o, Undef) :
     c \in Chains, o \in {Undef, Num("1")}}

BareEvents == {Event(NoHandle, NoEffect, "set", "count", Num("1"), Num("2"))}

ClassifyEvents == TargetEvents \cup EffectEvents \cup BareEvents

ClassifyRecord ==
  /\ nCalls < MaxProbes
  /\ RecordTriggerOf(ThrottleIds, ClassifyEvents)

NextClassify ==
  \/ ClassifyRecord
  \/ ThrottleFinalize

SpecClassify == InitRaise /\ [][NextClassify]_vars

\* The specification of store attribution: a registry built with
\* enablePiniaTracking and no throttle interval, not paused; the application
\* registers its store 'cart' and then two components render it, while
\* actions of the store mutate its state.
InitStore ==
  /\ InitWith({TRUE})
  /\ options.throttleMs = 0
  /\ ~isPaused

\* the getter's computed as a target and behind an effect, a state ref, a
\* computed of no store, and a 'get' event on an object of no store whose
\* value is the value the getter has before the first mutation
StoreEvents ==
  {Event("totalC", Effect(<<>>), "set", "value", Undef, Undef),
   Event(NoHandle, Effect(<<Dep(NoHandle, "plain"), Dep("totalC", NoHandle)>>),
         NoType, NoKey, Undef, Undef),
   Event("itemsRef", Effect(<<>>), "set", "value", Num("1"), Num("2")),
   Event("compH", Effect(<<>>), "set", "value", Undef, Undef),
   Event("plain", Effect(<<>>), "get", "count", Undef, Num("3"))}

StoreRegister == RegisterStoreOf({Obj("cart")})

StoreRecord ==
  /\ HasStore(piniaTracker, "cart")
  /\ RecordTriggerOf(Ids, StoreEvents)

StoreFinalize == FinalizeOf(Ids, MaxRenders)

NextStore ==
  \/ StoreRegister
  \/ MutateStore
  \/ StoreRecord
  \/ StoreFinalize

SpecStore == InitStore /\ [][NextStore]_vars

\* The specification of the value-based lookup: the tracker of a registry
\* built with enablePiniaTracking; the stores 'counter' and 'cart' are
\* registered and mutated, lookupByValue is called with a value and a type,
\* and the registry attributes events as recordRenderTrigger does.
InitValue ==
  /\ InitWith({TRUE})
  /\ options.throttleMs = 0
  /\ ~isPaused

\* current and former values of the getters, values of state and of plain
\* members, a function, and values no member has
LookupValues ==
  {Undef, Num("0"), Num("3"), Num("4"), Num("42"), Fn,
   Obj("countRef"), Obj("doubleC"), Obj("itemsP")}

LookupTypes == {"get", "set", "add", NoType}

\* what lookupByValue(value, type) returned
RetByValue(value, type, result) ==
  [kind |-> "byValue", value |-> value, type |-> type, result |-> result]

\* what lines 192-199 of recordRenderTrigger found for the event
RetStoreInfo(event, result) ==
  [kind |-> "storeInfo", event |-> event, result |-> result]

LookupByValue ==
  \E value \in LookupValues, type \in LookupTypes :
    /\ ret' = RetByValue(value, type, lookupByValue(piniaTracker, value, type))
    /\ cbCalls' = <<>>
    /\ UNCHANGED <<piniaTracker, oldSeen>>
    /\ TrackerFrame

\* events on members of the store and on objects of no store
ValueEvents ==
  StoreEvents
    \cup {Event("plain", Effect(<<>>), type, "count", Undef, value) :
            type \in {"get", "set"}, value \in {Num("3"), Num("4"), Num("42")}}
    \cup {Event("itemsRef", Effect(<<>>), "get", "value", Num("3"), Num("3"))}

AttributeEvent ==
  \E event \in ValueEvents :
    /\ ret' = RetStoreInfo(event, StoreInfoFor(event, Extract(event)))
    /\ cbCalls' = <<>>
    /\ UNCHANGED <<piniaTracker, oldSeen>>
    /\ TrackerFrame

NextValue ==
  \/ GetterRegister
  \/ MutateStore
  \/ LookupByValue
  \/ AttributeEvent

SpecValue == InitValue /\ [][NextValue]_vars

\* ------------------------------------------------------------- the plugin
\* enableWhyDidYouRender (src/unnamed/part_001): the hooks setupTracking
\* installs on a component instance, and the console logger.

LogLevels == {"verbose", "warn", "error"}

\* does the trigger list carry a no-op trigger
HasNoOp(triggers) == \E i \in DOMAIN triggers : triggers[i].isNoOp

\* getEventSeverity(hasNoOps, triggerCount)
getEventSeverity(hasNoOps, triggerCount) ==
  IF hasNoOps THEN "noOp" ELSE IF triggerCount > 1 THEN "always" ELSE "info"

\* shouldLog(eventSeverity, configuredLevel)
shouldLog(eventSeverity, configuredLevel) ==
  IF configuredLevel = "verbose" THEN TRUE
  ELSE IF configuredLevel = "warn" THEN eventSeverity \in {"noOp", "always"}
  ELSE IF configuredLevel = "error" THEN eventSeverity = "always"
  ELSE FALSE

\* the console logger writes the event at the configured level
Admitted(event) ==
  shouldLog(getEventSeverity(HasNoOp(event.triggers), Len(event.triggers)),
            options.logLevel)

\* RenderFormatter.format, lines 385-394: the header line of an event; the
\* component id is kept with it to tell the instances apart
Header(event) ==
  [componentId |-> event.componentId,
   componentName |-> event.componentName,
   badge |-> IF HasNoOp(event.triggers) THEN "warning" ELSE "ok",
   label |-> IF event.isInitialRender THEN "Mounted" ELSE "Re-rendered"]

\* createConsoleLogger(formatter, logLevel)(event): the console afterwards
consoleLogger(event) ==
  IF Admitted(event) THEN Append(logged, Header(event)) ELSE logged

\* the mounted hook of setupTracking, lines 767-773: the event finalizeRender
\* returns is dropped
MountedHook ==
  \E id \in ThrottleIds \ mounted :
    /\ FinalizeWith({id}, MaxCycles, {FALSE})
    /\ mounted' = mounted \cup {id}
    /\ logged' = logged
    /\ hookCalls' = <<>>

\* the updated hook of setupTracking, lines 752-764
UpdatedHook ==
  \E id \in mounted :
    /\ FinalizeWith({id}, MaxCycles, {FALSE})
    /\ logged' = IF ret'.kind = "event" /\ options.logOnConsole
                 THEN consoleLogger(ret'.event) ELSE logged
    /\ hookCalls' = IF ret'.kind = "event" /\ options.onRender
                    THEN <<ret'.event>> ELSE <<>>
    /\ UNCHANGED mounted

\* the render-triggered callback, lines 743-749: Vue calls it for a mounted
\* component that is about to re-render
TriggeredHook ==
  /\ RecordTriggerOf(mounted, TriggerEvents)
  /\ hookCalls' = <<>>
  /\ UNCHANGED <<mounted, logged>>

\* The specification of the plugin: one component of an application whose
\* registry is not paused; the component is mounted, then re-renders.
InitMount ==
  /\ InitOf({FALSE}, BOOLEAN, LogLevels)
  /\ ~isPaused

NextMount ==
  \/ MountedHook
  \/ TriggeredHook
  \/ UpdatedHook

SpecMount == InitMount /\ [][NextMount]_vars

\* Time passes whether or not anything is rendered.
Tick ==
  /\ clock < StartTime + MaxCycles
  /\ clock' = clock + 1
  /\ UNCHANGED <<progVars, ghostVars, storeVars, pluginVars>>

NextLive ==
  \/ NextThrottle
  \/ Tick

\* The same with time passing on its own: nothing in the program schedules a
\* finalizeRender call, so no call is fair.
SpecLive == InitThrottle /\ [][NextLive]_vars /\ WF_vars(Tick)

\* ------------------------------------------------------------ properties

\* In the action formulas below a step with ret' other than Void is a
\* finalizeRender call: every other operation returns nothing.

\* the serials of a trigger list, in order
Uids(triggers) == [i \in DOMAIN triggers |-> triggers[i].uid]

\* the sum of the counts of a Map<string, number>
RECURSIVE SumCounts(_)
SumCounts(m) ==
  IF DOMAIN m = {} THEN 0
  ELSE LET k == CHOOSE x \in DOMAIN m : TRUE
       IN  m[k] + SumCounts(MapDelete(m, k))

\* everything the registry keeps for one component id
ComponentState(id) ==
  [ tracked |-> IF Has(trackedDeps, id) THEN <<trackedDeps[id]>> ELSE <<>>,
    pending |-> IF Has(pendingTriggers, id) THEN <<pendingTriggers[id]>> ELSE <<>>,
    lastEmit |-> IF Has(lastRenderTime, id) THEN <<lastRenderTime[id]>> ELSE <<>>,
    held |-> IF Has(throttledEvents, id) THEN <<throttledEvents[id]>> ELSE <<>>,
    rendered |-> id \in initialRenderComplete ]

C3_BuffersEmptyAfterFinalize ==
  (~isPaused /\ ret.kind \in {"null", "event"}) =>
    /\ ~Has(pendingTriggers, ret.id)
    /\ ~Has(trackedDeps, ret.id)

\* a throttled call that moved recorded triggers into the held event
C3_Witness ==
  /\ ~isPaused
  /\ ret.kind = "null"
  /\ Has(throttledEvents, ret.id)
  /\ Len(throttledEvents[ret.id].triggers) > 0
  /\ ~Has(pendingTriggers, ret.id)

\* C4: pause and resume change nothing but the pause flag and change nothing
\* at all when repeated; while paused, the record calls and finalizeRender
\* change nothing the registry keeps; every trigger recorded for id and not
\* yet finalized, cleaned or reset is in the next event returned for id.
C4_PauseFrame ==
  [][ /\ (pause \/ resume) =>
           UNCHANGED <<options, trackedDeps, pendingTriggers, totalRenders,
                       rendersByComponent, noOpRenderCount, lastRenderTime,
                       throttledEvents, initialRenderComplete, registry>>
      /\ (isPaused /\ pause) => UNCHANGED progVars
      /\ (~isPaused /\ resume) => UNCHANGED progVars
      /\ (isPaused /\ \E id \in Ids, ev \in TrackedEvents :
                         recordTrackedDependency(id, ev)) => UNCHANGED progVars
      /\ (isPaused /\ \E id \in Ids, ev \in TriggerEvents :
                         recordRenderTrigger(id, ev, nCalls + 1)) => UNCHANGED progVars
      /\ (isPaused /\ ret'.kind # "void") => UNCHANGED progVars
      /\ ret'.kind = "event" =>
           \A k \in DOMAIN sinceTriggers[ret'.id] :
             \E i \in DOMAIN ret'.event.triggers :
               ret'.event.triggers[i].uid = sinceTriggers[ret'.id][k] ]_vars

\* an event delivering a trigger recorded before a record call that was
\* dropped while paused
C4_Witness ==
  /\ ret.kind = "event"
  /\ \E i \in DOMAIN ret.event.triggers : ret.event.triggers[i].uid < lastDropped

\* C5 as stated: an event has isInitialRender = true exactly when its call is
\* the first non-paused finalizeRender of the id since construction or since
\* the last reset().
C5_AsStated ==
  ret.kind = "event" =>
    (ret.event.isInitialRender <=> seenBefore \in {"never", "forgotten"})

\* C5: an event has isInitialRender = true exactly when its call is the first
\* non-paused finalizeRender of the id since construction, since the last
\* reset() or since the last cleanupComponent(id).
C5_InitialRenderOnce ==
  ret.kind = "event" =>
    (ret.event.isInitialRender <=> seenBefore # "finalized")

\* an event for an id finalized before and cleaned up since
C5_Witness ==
  /\ ret.kind = "event"
  /\ seenBefore = "cleaned"
  /\ ret.event.isInitialRender

\* C6 as stated: after a non-paused finalizeRender of id, and until the next
\* reset(), the has-rendered flag of id is set.
C6_AsStated ==
  \A id \in Ids :
    seen[id] \in {"finalized", "cleaned"} => id \in initialRenderComplete

\* C6: after a non-paused finalizeRender of id, and until the next reset() or
\* cleanupComponent(id), the has-rendered flag of id is set.
C6_FlagKept ==
  \A id \in Ids : seen[id] = "finalized" => id \in initialRenderComplete

\* the flag of one id outlives the cleanup of the other
C6_Witness ==
  \E id \in Ids, other \in Ids :
    /\ seen[id] = "finalized"
    /\ seen[other] = "cleaned"
    /\ id \in initialRenderComplete
    /\ other \notin initialRenderComplete

C8_NoOpRendersPerEvent ==
  [][ /\ ret'.kind = "event" =>
           noOpRenderCount' =
             noOpRenderCount + (IF HasNoOp(ret'.event.triggers) THEN 1 ELSE 0)
      /\ (ret'.kind # "event" /\ ~reset) => noOpRenderCount' = noOpRenderCount
      /\ getStats'.noOpRenders = noOpRenderCount'
      /\ getStats'.noOpRenders <= getStats'.totalRenders ]_vars

\* an event with two no-op triggers counted once
C8_Witness ==
  /\ ret.kind = "event"
  /\ Len(ret.event.triggers) = 2
  /\ \A i \in DOMAIN ret.event.triggers : ret.event.triggers[i].isNoOp
  /\ getStats.noOpRenders = 1

\* C9: reset() leaves the statistics at zero and the history, the pending,
\* tracked, last-emit and held state empty; the first non-paused finalizeRender
\* after it of an id finalized before it returns an event with
\* isInitialRender = true.
C9_ResetClearsAll ==
  [][ /\ reset =>
           /\ getStats' = [totalRenders |-> 0, byComponent |-> EmptyMap,
                           noOpRenders |-> 0]
           /\ registry' = EmptyMap
           /\ pendingTriggers' = EmptyMap
           /\ trackedDeps' = EmptyMap
           /\ lastRenderTime' = EmptyMap
           /\ throttledEvents' = EmptyMap
      /\ seenBefore' = "forgotten" =>
           /\ ret'.kind = "event"
           /\ ret'.event.isInitialRender ]_vars

\* the first event after a reset, for an id finalized before the reset
C9_Witness ==
  /\ ret.kind = "event"
  /\ seenBefore = "forgotten"
  /\ ret.event.isInitialRender
  /\ getStats.totalRenders = 1
  /\ nFinal = 2

\* C10: cleanupComponent(id) leaves id without tracked keys, pending triggers,
\* last-emit timestamp, held event and has-rendered flag, and leaves the
\* statistics and the state of every other component id as they were.
C10_CleanupFrame ==
  [][ \A id \in Ids :
        cleanupComponent(id) =>
          /\ ComponentState(id)' =
               [tracked |-> <<>>, pending |-> <<>>, lastEmit |-> <<>>,
                held |-> <<>>, rendered |-> FALSE]
          /\ getStats' = getStats
          /\ \A other \in Ids \ {id} :
               ComponentState(other)' = ComponentState(other) ]_vars

\* one id cleaned up after it rendered, the other still holding its state
C10_Witness ==
  \E id \in Ids, other \in Ids :
    /\ seen[id] = "cleaned"
    /\ ComponentState(id).lastEmit = <<>>
    /\ ~ComponentState(id).rendered
    /\ ComponentState(other).rendered
    /\ ComponentState(other).lastEmit # <<>>
    /\ getStats.totalRenders = 2

\* ------------------------------------------------- render reason, throttling

\* the reason the four-way rule gives for a list of triggers
ReasonOf(triggers) ==
  IF triggers = <<>> THEN "initial"
  ELSE IF \E i \in DOMAIN triggers : triggers[i].source = "store" THEN "store-change"
  ELSE IF \E i \in DOMAIN triggers : triggers[i].source = "prop" THEN "prop-change"
  ELSE "state-change"

\* C11: the rerenderReason of every returned event is the one its own triggers
\* determine: 'initial' exactly when it carries no trigger, else 'store-change'
\* if a trigger has source 'store', else 'prop-change' if one has source
\* 'prop', else 'state-change'.
C11_AsStated ==
  ret.kind = "event" =>
    /\ ret.event.rerenderReason = ReasonOf(ret.event.triggers)
    /\ (ret.event.rerenderReason = "initial" <=> ret.event.triggers = <<>>)

HistoryUids == UNION {Range(Uids(registry[k].triggers)) : k \in DOMAIN registry}

\* C13: with throttling on, a finalizeRender(id) made when id has no earlier
\* event or at least T after its latest one passes on an event whose triggers
\* are the held triggers of id in recorded order followed by the triggers
\* recorded in its own cycle, and the held event of id is gone; no trigger of
\* that event is in an earlier event.
C13_AsStated ==
  [][ (~isPaused /\ options.throttleMs > 0 /\ ret'.kind # "void") =>
        LET id == ret'.id
        IN  /\ (lastEmitAt[id] = 0 \/ clock' - lastEmitAt[id] >= options.throttleMs) =>
                 Emitted(ret')
            /\ Emitted(ret') =>
                 /\ Uids(ret'.event.triggers) = heldBefore' \o sinceTriggers[id]
                 /\ Uids(ret'.event.triggers) = sinceEmit[id]
                 /\ ~Has(throttledEvents', id)
                 /\ Range(Uids(ret'.event.triggers)) \cap HistoryUids = {}
                 /\ \A i, j \in DOMAIN ret'.event.triggers :
                      i < j => ret'.event.triggers[i].uid < ret'.event.triggers[j].uid ]_vars

\* id holds triggers of throttled cycles
Holding(id) ==
  /\ Has(throttledEvents, id)
  /\ throttledEvents[id].triggers # <<>>

\* C14: every trigger moved into a held event is eventually in a returned
\* event, once the interval has passed, unless reset() or cleanupComponent(id)
\* drops it first: an id that holds triggers eventually holds none.
C14_AsStated ==
  \A id \in ThrottleIds : Holding(id) ~> ~Holding(id)

\* C15: with a callback configured, a finalizeRender call that returns an
\* event has called it once, with that event, and a call that returns null
\* has not called it.
C15_CallbackOncePerEvent ==
  /\ (options.onRender /\ ret.kind = "event") => cbCalls = <<ret.event>>
  /\ ret.kind # "event" => cbCalls = <<>>

\* the callback received the one event that carries a recorded trigger
C15_Witness ==
  /\ options.onRender
  /\ ret.kind = "event"
  /\ Len(ret.event.triggers) = 1
  /\ cbCalls = <<ret.event>>
  /\ nFinal = 2

\* ------------------------------------------------------------ no-op detector

\* every trigger the registry holds or has just returned
AllTriggers ==
  UNION {Range(pendingTriggers[id]) : id \in DOMAIN pendingTriggers}
    \cup (IF ret.kind = "event" THEN Range(ret.event.triggers) ELSE {})

IsArrayValue(x) == x.ty = "object" /\ Heap[x.v].isArray

\* x is an object that is not an array
IsKeyedValue(x) == x.ty = "object" /\ ~Heap[x.v].isArray

\* the elements of the array x
Elements(x) == [i \in DOMAIN Heap[x.v].keys |-> Heap[x.v].vals[Heap[x.v].keys[i]]]

\* the key set of x
KeySet(x) == Range(Heap[x.v].keys)

C18_AsStated ==
  \A t \in AllTriggers :
    (IsKeyedValue(t.oldValue) /\ IsKeyedValue(t.newValue) /\ t.oldValue # t.newValue) =>
      (t.isNoOp <=>
         /\ KeySet(t.oldValue) = KeySet(t.newValue)
         /\ \A k \in KeySet(t.oldValue) :
              ToRaw(Prop(t.oldValue.v, k)) = ToRaw(Prop(t.newValue.v, k)))

\* ------------------------------------------------------------ store tracker

\* C19: registerStore changes nothing in the identity map, the getter-value
\* cache and the table of registered stores when it is given a store, the
\* same object or another one, whose $id is registered already, or a store
\* without $id (or no store at all).
C19_RegisterOnce ==
  [][ \A store \in StoreInputs :
        (/\ registerStore(store)
         /\ \/ Falsy(store)
            \/ Falsy(PropOf(store, "$id"))
            \/ HasStore(piniaTracker, PropOf(store, "$id").v))
          => /\ piniaTracker'.refToStoreMap = piniaTracker.refToStoreMap
             /\ piniaTracker'.getterValueCache = piniaTracker.getterValueCache
             /\ piniaTracker'.registeredStores = piniaTracker.registeredStores
             /\ piniaTracker'.propToRefMap = piniaTracker.propToRefMap ]_vars

\* 'counter' is registered and another store object with the same $id was
\* given next: the table still holds the first object, whose ref is known,
\* and the ref of the second is not
C19_Witness ==
  /\ ret = RetVoidOf("registerStore", Obj("counter2"))
  /\ piniaTracker.registeredStores = << <<"counter", "counter">> >>
  /\ lookupProperty(piniaTracker, Obj("countRef")) = Info("counter", "count", "state")
  /\ lookupProperty(piniaTracker, Obj("nRef")) = NoInfo
  /\ <<"counter", "double">> \in DOMAIN piniaTracker.getterValueCache

\* the store objects that are registered
RegisteredObjects ==
  {piniaTracker.registeredStores[i][2] : i \in DOMAIN piniaTracker.registeredStores}

\* the objects a store exposes under its members that are neither internal
\* nor functions, read through the store or through its raw object
Members(s) ==
  {<<k, v>> \in (Range(World[s].keys) \ InternalNames)
                  \X {Obj(id) : id \in DOMAIN World} :
     v \in {Get(s, k), Get(IF World[s].vraw = "" THEN s ELSE World[s].vraw, k)}}

\* every object that is part of store s: the store and its raw object, its
\* state container, the member and state values, what these are proxies of,
\* the dep of a computed member, and the toRefs that point back to them
PartsOf(s) ==
  LET containers == {Obj(s), VRaw(Obj(s)), Get(s, "$state"), VRaw(Get(s, "$state"))}
                      \ {Undef}
      values == {m[2] : m \in Members(s)}
                  \cup {Get(c.v, k) : c \in containers, k \in {"items", "count", "n"}}
      every == containers \cup values \cup {VRaw(v) : v \in values}
                 \cup {DepOf(v) : v \in values} \cup {EffectOf(v) : v \in values}
      reach == {x \in every : x.ty = "object"}
  IN  {x \in LookupTargets : x \in reach \/ SourceOf(x) \in reach}

\* C20: with a store registered, lookupProperty returns the store's id, the
\* member's name and 'state' for the handle of a state ref of the store, and
\* 'getter' with its name for the handle of a computed getter; it returns
\* undefined for null, for undefined and for every handle that is not part
\* of a registered store.
C20_AsStated ==
  ret.kind = "lookup" =>
    /\ \A s \in RegisteredObjects : \A m \in Members(s) :
         (m[2] = ret.target /\ (IsRefV(m[2]) \/ IsComputedV(m[2]))) =>
           ret.result = Info(Get(s, "$id").v, m[1],
                             IF IsComputedV(m[2]) THEN "getter" ELSE "state")
    /\ (\/ ret.target \in {Null, Undef}
        \/ \A s \in RegisteredObjects : ret.target \notin PartsOf(s))
         => ret.result = NoInfo

\* ---------------------------------------------------------------- classifier

\* the last element of a non-empty sequence
LastOf(seq) == seq[Len(seq)]

\* the strings the registry puts in place of a value
IsSentinel(x) == x.ty = "string"

\* does recordRenderTrigger(event) read a backing value that throws
RecordReadFails(event) ==
  IF event.target = NoHandle
  THEN /\ event.effect.present
       /\ FirstUsable(event.effect.deps) # 0
       /\ Handles[DepTarget(event.effect.deps[FirstUsable(event.effect.deps)])]._valueThrows
  ELSE IF IsComputedH(event.target)
  THEN /\ event.oldValue = Undef
       /\ event.newValue = Undef
       /\ Handles[event.target]._valueThrows
  ELSE /\ Handles[event.target].isRef
       /\ (event.oldValue = Undef \/ event.newValue = Undef)
       /\ \/ Handles[event.target]._valueThrows
          \/ (Handles[event.target]._value \in {Undef, Null}
                /\ Handles[event.target].valueThrows)

\* the triggers a finalizeRender call handed on: those of the event it
\* returned, or those of the event it holds
Delivered(r, held, id) ==
  IF r.kind = "event" THEN r.event.triggers
  ELSE IF Has(held, id) THEN held[id].triggers
  ELSE <<>>

\* C23 as stated: a value read that throws in recordRenderTrigger leaves a
\* sentinel string in the trigger, which is still recorded; a deferred read
\* that throws in finalizeRender leaves a sentinel string as newValue, and the
\* event is still emitted (or held); neither call raises.
C23_AsStated ==
  [][ /\ \A ev \in ClassifyEvents :
           (/\ ~isPaused
            /\ RecordReadFails(ev)
            /\ recordRenderTrigger("c1", ev, nCalls + 1))
             => /\ Has(pendingTriggers', "c1")
                /\ LastOf(pendingTriggers'["c1"]).uid = nCalls + 1
                /\ \/ IsSentinel(LastOf(pendingTriggers'["c1"]).oldValue)
                   \/ IsSentinel(LastOf(pendingTriggers'["c1"]).newValue)
      /\ \A reads \in CommitReads :
           (/\ ~isPaused
            /\ Has(pendingTriggers, "c1")
            /\ finalizeRender("c1", "A", reads))
             => /\ ret'.kind \in {"event", "null"}
                /\ \A i \in DOMAIN pendingTriggers["c1"] :
                     (/\ pendingTriggers["c1"][i]._computedRef # NoHandle
                      /\ reads[pendingTriggers["c1"][i]._computedRef].throws)
                       => \E j \in DOMAIN Delivered(ret', throttledEvents', "c1") :
                            /\ Delivered(ret', throttledEvents', "c1")[j].uid
                                 = pendingTriggers["c1"][i].uid
                            /\ IsSentinel(Delivered(ret', throttledEvents', "c1")[j].newValue)
    ]_vars

\* a direct value cell: a ref that is not a computed
IsPlainRef(h) == h # NoHandle /\ Handles[h].isRef /\ ~IsComputedH(h)

\* C24 as stated: a 'set' event on a ref that carries the assigned newValue
\* and no oldValue (the ref, where it can be read, holding the assigned value
\* by then) gives a trigger with oldValue = undefined, newValue = the
\* assigned value and isNoOp = false.
C24_AsStated ==
  [][ \A ev \in ClassifyEvents :
        (/\ ~isPaused
         /\ IsPlainRef(ev.target)
         /\ ev.type = "set"
         /\ ev.oldValue = Undef
         /\ ev.newValue # Undef
         /\ (Handles[ev.target]._valueThrows \/ Handles[ev.target]._value = ev.newValue)
         /\ recordRenderTrigger("c1", ev, nCalls + 1))
          => /\ LastOf(pendingTriggers'["c1"]).oldValue = Undef
             /\ LastOf(pendingTriggers'["c1"]).newValue = ev.newValue
             /\ ~LastOf(pendingTriggers'["c1"]).isNoOp
    ]_vars

\* C26 as stated: every trigger of a returned event has
\* isNoOp = detectNoOp(oldValue, newValue) for the values it carries.
C26_AsStated ==
  ret.kind = "event" =>
    \A i \in DOMAIN ret.event.triggers :
      ret.event.triggers[i].isNoOp
        = detectNoOp(ret.event.triggers[i].oldValue, ret.event.triggers[i].newValue)

\* does the link expose a computed or a ref
Exposes(d) ==
  /\ DepTarget(d) # NoHandle
  /\ (IsComputedH(DepTarget(d)) \/ Handles[DepTarget(d)].isRef)

\* the trigger is classified by handle h of a dependency link
ClassifiedBy(t, h) ==
  IF IsComputedH(h)
  THEN /\ t.source = "computed"
       /\ t.key = "value"
       /\ t.type = "get"
       /\ t._computedRef = h
  ELSE /\ t.source = "ref"
       /\ t.key = "value"
       /\ t.type = "set"
       /\ t.oldValue = t.newValue
       /\ t._computedRef = NoHandle

\* C28: for an event with no target and an effect, the trigger is classified
\* by the first link of the dependency chain that exposes a computed or a
\* ref; when no link does, it has source 'computed', key 'dependency', type
\* 'change', newValue '[dependency changed]' and is not a no-op.
C28_EffectChain ==
  [][ \A ev \in EffectEvents :
        (/\ ~isPaused
         /\ recordRenderTrigger("c1", ev, nCalls + 1))
          => IF \E i \in DOMAIN ev.effect.deps : Exposes(ev.effect.deps[i])
             THEN \E i \in DOMAIN ev.effect.deps :
                    /\ Exposes(ev.effect.deps[i])
                    /\ \A j \in 1..(i - 1) : ~Exposes(ev.effect.deps[j])
                    /\ ClassifiedBy(LastOf(pendingTriggers'["c1"]),
                                    DepTarget(ev.effect.deps[i]))
             ELSE /\ LastOf(pendingTriggers'["c1"]).source = "computed"
                  /\ LastOf(pendingTriggers'["c1"]).key = "dependency"
                  /\ LastOf(pendingTriggers'["c1"]).type = "change"
                  /\ LastOf(pendingTriggers'["c1"]).newValue = Str("[dependency changed]")
                  /\ ~LastOf(pendingTriggers'["c1"]).isNoOp
    ]_vars

\* an event was returned whose trigger says only that a dependency changed
C28_Witness ==
  /\ ret.kind = "event"
  /\ Len(ret.event.triggers) = 1
  /\ ret.event.triggers[1].source = "computed"
  /\ ret.event.triggers[1].key = "dependency"
  /\ ret.event.triggers[1].type = "change"
  /\ ret.event.triggers[1].newValue = Str("[dependency changed]")
  /\ ~ret.event.triggers[1].isNoOp

\* target._value ?? target.value, for a handle whose reads do not throw
CurrentValue(h) ==
  IF Handles[h]._value \in {Undef, Null} THEN Handles[h].value ELSE Handles[h]._value

\* C29: for a ref target whose event carries neither oldValue nor newValue,
\* both values of the trigger are the cell's current backing value, and the
\* trigger is a no-op exactly when that value is not undefined; when the
\* value cannot be read both stay undefined.
C29_ForcedRefresh ==
  [][ \A ev \in TargetEvents :
        (/\ ~isPaused
         /\ IsPlainRef(ev.target)
         /\ ev.oldValue = Undef
         /\ ev.newValue = Undef
         /\ recordRenderTrigger("c1", ev, nCalls + 1))
          => IF RecordReadFails(ev)
             THEN /\ LastOf(pendingTriggers'["c1"]).oldValue = Undef
                  /\ LastOf(pendingTriggers'["c1"]).newValue = Undef
                  /\ ~LastOf(pendingTriggers'["c1"]).isNoOp
             ELSE /\ LastOf(pendingTriggers'["c1"]).oldValue = CurrentValue(ev.target)
                  /\ LastOf(pendingTriggers'["c1"]).newValue = CurrentValue(ev.target)
                  /\ LastOf(pendingTriggers'["c1"]).isNoOp
                       = (CurrentValue(ev.target) # Undef)
    ]_vars

\* the event returned for a forced refresh of the ref holding 1: a no-op
C29_Witness ==
  /\ ret.kind = "event"
  /\ Len(ret.event.triggers) = 1
  /\ ret.event.triggers[1].source = "ref"
  /\ ret.event.triggers[1].path = <<"ref", "value">>
  /\ ret.event.triggers[1].oldValue = Num("1")
  /\ ret.event.triggers[1].newValue = Num("1")
  /\ ret.event.triggers[1].isNoOp

\* ------------------------------------------------------------- getter cache

GetterTriggersOf(id) ==
  {t \in Range(GetOr(pendingTriggers, id, <<>>)) : t.storePropType = "getter"}
    \cup UNION {{t \in Range(registry[k].triggers) : t.storePropType = "getter"} :
                  k \in {x \in DOMAIN registry : x[1] = id}}

\* C22 as stated: two getter triggers for the same derived property recorded
\* for different components between the same two store mutations carry the
\* same oldValue, whatever the order of the components' recordRenderTrigger
\* and finalizeRender calls.
C22_AsStated ==
  \A t1 \in GetterTriggersOf("c1"), t2 \in GetterTriggersOf("c2") :
    (t1.storeId = t2.storeId /\ t1.storePropName = t2.storePropName
       /\ t1.newValue = t2.newValue)
      => t1.oldValue = t2.oldValue

\* C27 as stated: no trigger of an emitted or held event carries a reference
\* to a computed whose value is still to be read.
C27_AsStated ==
  /\ \A k \in DOMAIN registry :
       \A t \in Range(registry[k].triggers) : t._computedRef = NoHandle
  /\ \A id \in DOMAIN throttledEvents :
       \A t \in Range(throttledEvents[id].triggers) : t._computedRef = NoHandle
  /\ Emitted(ret) =>
       \A t \in Range(ret.event.triggers) : t._computedRef = NoHandle

\* C30: when the tracker matches the event, by the objects of the event or
\* by the value of a 'get' event, the recorded trigger has source 'store',
\* the property name as key, the store fields of the match and the path
\* <storeId>.<propName>; for a getter its values are the pair
\* getGetterValueWithOld returns and isNoOp is computed from that pair, for a
\* state property the values are those the classifier extracted.
C30_StoreAttribution ==
  [][ \A id \in Ids, ev \in StoreEvents :
        (recordRenderTrigger(id, ev, nCalls + 1) /\ ~isPaused
           /\ StoreInfoFor(ev, Extract(ev)) # NoInfo)
          => /\ LastOf(pendingTriggers'[id]).source = "store"
             /\ LastOf(pendingTriggers'[id]).key = StoreInfoFor(ev, Extract(ev)).propName
             /\ LastOf(pendingTriggers'[id]).storeId = StoreInfoFor(ev, Extract(ev)).storeId
             /\ LastOf(pendingTriggers'[id]).storePropName
                  = StoreInfoFor(ev, Extract(ev)).propName
             /\ LastOf(pendingTriggers'[id]).storePropType
                  = StoreInfoFor(ev, Extract(ev)).propType
             /\ LastOf(pendingTriggers'[id]).path
                  = << StoreInfoFor(ev, Extract(ev)).storeId,
                       StoreInfoFor(ev, Extract(ev)).propName >>
             /\ IF StoreInfoFor(ev, Extract(ev)).propType = "getter"
                THEN /\ LastOf(pendingTriggers'[id]).oldValue
                          = GetOr(piniaTracker.getterValueCache,
                                  << StoreInfoFor(ev, Extract(ev)).storeId,
                                     StoreInfoFor(ev, Extract(ev)).propName >>, Undef)
                     /\ LastOf(pendingTriggers'[id]).newValue = ValueNow("totalC")
                     /\ LastOf(pendingTriggers'[id]).isNoOp
                          = detectNoOp(LastOf(pendingTriggers'[id]).oldValue,
                                       LastOf(pendingTriggers'[id]).newValue)
                ELSE /\ LastOf(pendingTriggers'[id]).oldValue = Extract(ev).oldValue
                     /\ LastOf(pendingTriggers'[id]).newValue = Extract(ev).newValue
                     /\ LastOf(pendingTriggers'[id]).isNoOp
                          = detectNoOp(Extract(ev).oldValue, Extract(ev).newValue)
    ]_vars

\* a trigger of the getter cart.total recorded after a mutation, and one of
\* the state cart.items
C30_Witness ==
  \E id \in DOMAIN pendingTriggers :
    /\ \E t \in Range(pendingTriggers[id]) :
         /\ t.source = "store" /\ t.storePropType = "getter"
         /\ t.key = "total" /\ t.path = <<"cart", "total">>
         /\ t.oldValue = Num("3") /\ t.newValue = Num("4") /\ ~t.isNoOp
    /\ \E t \in Range(pendingTriggers[id]) :
         /\ t.source = "store" /\ t.storePropType = "state"
         /\ t.key = "items" /\ t.path = <<"cart", "items">>
         /\ t.oldValue = Num("1") /\ t.newValue = Num("2")

\* ------------------------------------------------------------------ console

\* the event of the component's initial render is in the history
InitialEventOf(id) ==
  \E k \in DOMAIN registry :
    /\ k[1] = id
    /\ registry[k].isInitialRender
    /\ Admitted(registry[k])

\* C25 as stated: with console logging enabled, the event of a component's
\* initial render, when the log level admits it, is written to the console
\* under the header 'Mounted', and no re-render of the component is written
\* before it.
C25_AsStated ==
  options.logOnConsole =>
    \A id \in mounted :
      /\ InitialEventOf(id) =>
           \E i \in DOMAIN logged :
             logged[i].componentId = id /\ logged[i].label = "Mounted"
      /\ \A j \in DOMAIN logged :
           (logged[j].componentId = id /\ logged[j].label = "Re-rendered"
              /\ \E k \in DOMAIN registry : k[1] = id /\ registry[k].isInitialRender)
             => \E i \in 1..(j - 1) :
                  logged[i].componentId = id /\ logged[i].label = "Mounted"

\* ------------------------------------------------------ source and history

\* C31 as stated: a pending trigger has source 'store' exactly when a
\* PiniaTracker is configured and it matched the event, and exactly then
\* storeId and storePropName are set.
C31_AsStated ==
  \A id \in DOMAIN pendingTriggers :
    \A t \in Range(pendingTriggers[id]) :
      /\ (t.source = "store") <=> (options.enablePiniaTracking /\ t.storeId # "")
      /\ (t.source = "store") <=> (t.storeId # "" /\ t.storePropName # "")

\* the keys of the state container of a registered store
StateNamesOf(storeId) == Range(StateKeysOf(StoreOf(piniaTracker, storeId)))

\* C32: lookupByValue returns nothing unless the type is 'get'; what it
\* returns is a member of a registered store that is no key of the store's
\* state, whose current value is the value given, with propType 'getter'; and
\* the registry takes the value-based result only for an event of type 'get'
\* that the lookup by identity did not match.
C32_ValueLookup ==
  [][ /\ (ret'.kind = "byValue" /\ ret'.result # NoInfo
            /\ UNCHANGED <<piniaTracker, storeNow>>) =>
           /\ ret'.type = "get"
           /\ ret'.result.propType = "getter"
           /\ HasStore(piniaTracker, ret'.result.storeId)
           /\ ret'.result.propName \notin StateNamesOf(ret'.result.storeId)
           /\ Now(Get(StoreOf(piniaTracker, ret'.result.storeId),
                      ret'.result.propName)) = ret'.value
      /\ (ret'.kind = "storeInfo" /\ UNCHANGED <<piniaTracker, storeNow>>) =>
           /\ lookupStoreProperty(piniaTracker, ret'.event.target, ret'.event.effect)
                # NoInfo
                => ret'.result = lookupStoreProperty(piniaTracker, ret'.event.target,
                                                     ret'.event.effect)
           /\ (lookupStoreProperty(piniaTracker, ret'.event.target, ret'.event.effect)
                 = NoInfo
                 /\ Extract(ret'.event).type # "get")
                => ret'.result = NoInfo
    ]_vars

\* the value the getter cart.total has after a mutation was looked up for a
\* 'get' event, with both stores registered
C32_Witness ==
  /\ ret.kind = "byValue"
  /\ ret.type = "get"
  /\ ret.value = Num("4")
  /\ ret.result = Info("cart", "total", "getter")
  /\ HasStore(piniaTracker, "counter")


\* C33: the history map is bounded: whatever the number of renders finalized
\* without reset, the registry retains fewer events than that number once it
\* passes the maximum. As stated, with MaxRenders finalizeRender calls allowed:
\* the history never holds MaxRenders events.
C33_AsStated == Cardinality(DOMAIN registry) < MaxRenders

\* C34: every emitted event is stored under its own <<id, timestamp>> key and
\* no later emission replaces an earlier one: the history holds as many
\* events as totalRenders counts.
C34_AsStated == Cardinality(DOMAIN registry) = totalRenders


\* C35: the renderCount of a returned event is the number of events returned
\* under the same component name, whatever their ids, since the last reset():
\* the per-name counter before it is incremented, so that right after the
\* call getStats().byComponent[name] = renderCount + 1.
C35_RenderCountBeforeIncrement ==
  [][ (ret'.kind = "event" /\ totalRenders' = totalRenders + 1) =>
        /\ ret'.event.renderCount = emitted[ret'.event.componentName]
        /\ ret'.event.renderCount =
             GetOr(getStats.byComponent, ret'.event.componentName, 0)
        /\ getStats'.byComponent[ret'.event.componentName] =
             ret'.event.renderCount + 1 ]_vars

\* the second event of a name, returned for another id than the first
C35_Witness ==
  /\ ret.kind = "event"
  /\ ret.event.renderCount = 1
  /\ getStats.byComponent[ret.event.componentName] = 2
  /\ \E k \in DOMAIN registry :
       /\ k[1] # ret.event.componentId
       /\ registry[k].componentName = ret.event.componentName
       /\ registry[k].renderCount = 0


\* C36: a finalizeRender call that moved the pending triggers of id into a
\* stored event leaves id without pending triggers and without tracked keys
\* when it ends, also when it ends because options.onRender raised, and no
\* event carries a trigger that an earlier event in the history carries.
C36_AsStated ==
  [][ (/\ Emitted(ret')
       /\ totalRenders' = totalRenders + 1
       /\ Has(pendingTriggers, ret'.id)) =>
        /\ ~Has(pendingTriggers', ret'.id)
        /\ ~Has(trackedDeps', ret'.id)
        /\ Range(Uids(ret'.event.triggers)) \cap HistoryUids = {} ]_vars


\* C37: detectNoOp is symmetric: the flag computed for (old, new) is the one
\* detectNoOp gives for (new, old), also for keyed structures in which a key
\* is missing on one side or holds undefined.
C37_AsStated ==
  \A t \in AllTriggers :
    t.isNoOp = detectNoOp(t.newValue, t.oldValue)

\* C38: detectNoOp is false whenever one value is an array and the other a
\* keyed structure that is not an array, the empty array against the empty
\* object included.
C38_AsStated ==
  \A t \in AllTriggers :
    (/\ IsKeyedValue(t.oldValue) \/ IsArrayValue(t.oldValue)
     /\ IsKeyedValue(t.newValue) \/ IsArrayValue(t.newValue)
     /\ IsArrayValue(t.oldValue) # IsArrayValue(t.newValue)) => ~t.isNoOp


\* C39: with the library installed by enableWhyDidYouRender and onRender set,
\* an update whose finalizeRender returns an event invokes onRender once for
\* that event: the calls made inside finalizeRender and by the updated hook
\* itself are one call in all.
C39_AsStated ==
  [][ (/\ ret'.kind = "event"
       /\ ret'.id \in mounted
       /\ totalRenders' = totalRenders + 1
       /\ options.onRender) =>
        cbCalls' \o hookCalls' = <<ret'.event>> ]_vars


\* the sources recordRenderTrigger assigns
AssignedSources == {"unknown", "ref", "computed", "reactive", "store"}

\* the events the registry holds or has just returned
KnownEvents ==
  {registry[k] : k \in DOMAIN registry}
    \cup {throttledEvents[id] : id \in DOMAIN throttledEvents}
    \cup (IF ret.kind = "event" THEN {ret.event} ELSE {})

=============================================================================
